---- MODULE Spec2Model ----
(***************************************************************************)
(* Model of the process-lifecycle orchestrators of pgvanniekerk/ezapp.     *)
(*                                                                         *)
(* The repository holds several variants of the same orchestration logic.  *)
(* Each behaviour of this model runs ONE of them, chosen in Init:          *)
(*   "run"      ezapp.Run            (src/pkg/ezapp/run.go)                *)
(*   "errgroup" App.Run, errgroup    (src/internal/app/app.go:144-204),    *)
(*              the App that Build returns (src/unnamed/part_028:11-29)    *)
(*   "root"     the root Run         (src/unnamed/part_014:294-355) with   *)
(*              the Runner-based App it creates; the source of that App is *)
(*              not in src/ (its tests are, src/unnamed/part_009:443-888): *)
(*              it is modelled from the specification and those tests      *)
(*   "ezapp"    EzApp.Run            (src/pkg/ezapp/ezapp.go:68-122)       *)
(*   "ezapp040" EzApp.Run            (src/unnamed/part_040:20-100)         *)
(*   "stop"     App.Run, Stop-based  (src/internal/app/app.go:48-99)       *)
(*                                                                         *)
(* Errors are integers: NoErr is nil, Canceled is context.Canceled and a   *)
(* positive number i is the (non-cancellation) error returned by the       *)
(* runnable at list position i.                                            *)
(***************************************************************************)
EXTENDS Integers, Sequences, FiniteSets

VARIABLES
    variant,        \* which Run implementation this behaviour executes
    kinds,          \* input: what each runnable's Run(ctx) does
    handles,        \* input: handles[i] <=> runnable i's HandleError returns nil
    appHandler,     \* input: EzApp.errorHandler: "none", "resolve" or "fail"
    hasCleanup,     \* input: a cleanup function is configured (non-nil)
    opc,            \* position of the goroutine executing Run
    rpc,            \* position of each runnable's goroutine
    wpc,            \* position of the helper goroutine (wg.Wait / g.Wait / signal)
    ctxCancelled,   \* the context handed to the runnables is cancelled
    stopCtxCancelled, \* errgroup variant: App.stopCtx (parent of ctx) is cancelled
    errChan,        \* buffered error channel (contents, oldest first)
    errChanClosed,  \* close(errChan) was executed
    doneClosed,     \* close(done) was executed
    doneChan,       \* errgroup variant: contents of the buffered `done` channel
    gerr,           \* errgroup variant: g.err (set once by errOnce)
    sigChan,        \* number of signals buffered in sigChan / sigTerm
    sigsSent,       \* number of OS signals the environment has raised
    sigSubscribed,  \* signal.Notify is in force (not yet signal.Stop)
    exitCode,       \* the exitCode local of Run; the process status once exited
    reasonKind,     \* shutdown reason: "none", "signal", "error", "allDone", "noRunnables"
    reasonErr,      \* the error of a "Runnable error" reason
    appErr,         \* errgroup variant: the err local / return value of App.Run
    outcome,        \* how the top-level call ended ("none" while it runs)
    cleanupCalls,   \* number of invocations of the cleanup function
    cleanupFailed,  \* the cleanup function returned an error
    panicked,       \* a goroutine panicked
    firstTrigger,   \* history: the shutdown trigger that became observable first
    stopRes,        \* input (Stop variant): what each runnable's Stop(ctx) returns
    spc,            \* Stop variant: position of the Stop call on each runnable
    runCalls,       \* history: number of invocations of each runnable's Run
    observed,       \* history: <<how, err>> for every runner error the orchestrator saw
    cleanupLog,     \* history: what held when each cleanup call began
    initErr,        \* input: the builder / configuration returned an error
    sigOption,      \* input (Stop variant): a shutdown-signal channel was configured
    critChan,       \* input (Stop variant): the runnables' critErrChan: "nil" or "served"
    timeoutEnv,     \* input: value of the environment variable of the cleanup timeout
    goIdx,          \* errgroup variant: iterations of the g.Go loop of App.Run completed
    doneSends,      \* history (errgroup variant): number of sends on `done`
    doneRecvs       \* history (errgroup variant): number of receives from `done`

vars == <<variant, kinds, handles, appHandler, hasCleanup, opc, rpc, wpc,
          ctxCancelled, stopCtxCancelled, errChan, errChanClosed, doneClosed,
          doneChan, gerr, sigChan, sigsSent, sigSubscribed, exitCode,
          reasonKind, reasonErr, appErr, outcome, cleanupCalls, cleanupFailed,
          panicked, firstTrigger, stopRes, spc, runCalls, observed,
          cleanupLog, initErr, sigOption, critChan, timeoutEnv, goIdx,
          doneSends, doneRecvs>>

(***************************************************************************)
(* Bounds and program constants                                            *)
(***************************************************************************)
MaxRunners == 2

MaxSignals == 1

\* sigChan := make(chan os.Signal, 1)
SigChanCap == 1

\* nil error
NoErr == 0

\* context.Canceled
Canceled == -1

N == Len(kinds)

Runners == 1..N

(***************************************************************************)
(* Runnables (inputs).  Run(ctx) of a runnable of kind                     *)
(*   "ok"        returns nil without waiting                               *)
(*   "fail"      returns its own error without waiting                     *)
(*   "canceled"  returns context.Canceled without waiting                  *)
(*   "block"     waits for ctx.Done() and returns ctx.Err()                *)
(*   "blockok"   waits for ctx.Done() and returns nil                      *)
(*   "blockfail" waits for ctx.Done() and returns its own error            *)
(*   "hang"      never returns                                             *)
(* In the Stop-based variant Run takes no context: a runnable that waits   *)
(* there waits until its Stop has been called.                             *)
(***************************************************************************)
RunnerKinds == {"ok", "fail", "canceled", "block", "blockok", "blockfail", "hang"}

Blocks(k) == k \in {"block", "blockok", "blockfail"}

\* The value Run returns for the runnable at position i.
RetVal(i) ==
    CASE kinds[i] \in {"ok", "blockok"}     -> NoErr
      [] kinds[i] \in {"fail", "blockfail"} -> i
      [] kinds[i] \in {"canceled", "block"} -> Canceled
      [] OTHER                              -> NoErr

\* Mutant of CanReturn: a runnable that waits is never woken.
CanReturn_NeverWoken(i) ==
    /\ kinds[i] # "hang"
    /\ ~Blocks(kinds[i])

\* Run of runnable i can return in the current state.
CanReturn(i) ==
    /\ kinds[i] # "hang"
    /\ Blocks(kinds[i]) =>
          IF variant = "stop" THEN spc[i] # "idle" ELSE ctxCancelled

\* The state of a context after a call of its cancel function: cancelled,
\* whatever it was before (context.WithCancel: calls after the first do
\* nothing).
Cancel(c) == TRUE

\* The process is still running (os.Exit / return ends every goroutine's relevance).
Alive == outcome = "none"

AllGoroutinesDone == \A i \in Runners : rpc[i] = "done"

\* Run of runnable i has returned.
Returned(i) == rpc[i] \notin {"idle", "spawned", "running"}

\* History: the orchestrator saw error err in the way `how` ("errChan": it
\* received the error from the error channel, "HandleError" / "ErrHandler":
\* it passed the error to that handler, "critErrChan": the critical-error
\* goroutine received it).
Observe(how, err) == observed \cup {<<how, err>>}

\* History: what holds at the moment a cleanup call begins: whether the
\* runnables' context is cancelled, whether every Run has returned, whether
\* the context handed to the cleanup function has a deadline and whether that
\* context is already done.
CleanupBegin(cancelled, deadline, expired) ==
    [cancelled |-> cancelled, allReturned |-> \A i \in Runners : Returned(i),
     hasDeadline |-> deadline, ctxDone |-> expired]

\* strconv.Atoi on the values of EnvValues.
Atoi(str) ==
    IF str = "0" THEN [ok |-> TRUE, val |-> 0]
    ELSE IF str = "2" THEN [ok |-> TRUE, val |-> 2]
    ELSE [ok |-> FALSE, val |-> 0]

\* The default cleanup timeout in seconds.
DefaultTimeoutSec == 15

\* run.go:23-36: GetCleanupTimeout, in seconds: the default when the variable
\* is unset or not an integer, its value otherwise.
GetCleanupTimeout(str) ==
    IF str = "" THEN DefaultTimeoutSec
    ELSE IF ~Atoi(str).ok THEN DefaultTimeoutSec
    ELSE Atoi(str).val

\* part_002:17-36: config.ShutdownCtx: an error when the variable is set and
\* not an integer, otherwise a context with that timeout in seconds.
ShutdownCtx(str) ==
    IF str = "" THEN [ok |-> TRUE, sec |-> DefaultTimeoutSec]
    ELSE IF ~Atoi(str).ok THEN [ok |-> FALSE, sec |-> 0]
    ELSE [ok |-> TRUE, sec |-> Atoi(str).val]

\* startupctx.go:18-51: config.StartupCtx parses EZAPP_SHUTDOWN_TIMEOUT too
\* (lines 36-42) and returns an error when it is set and not an integer.
StartupCtx(str) ==
    IF str = "" THEN [ok |-> TRUE, sec |-> DefaultTimeoutSec]
    ELSE IF ~Atoi(str).ok THEN [ok |-> FALSE, sec |-> 0]
    ELSE [ok |-> TRUE, sec |-> Atoi(str).val]

\* Whether the run reads the timeout variable: ezapp.Run when it calls the
\* cleanup function (run.go:117), the root Run always, in config.StartupCtx
\* (part_014:306).
ReadsTimeoutEnv(v, cleanup) == v = "root" \/ (v = "run" /\ cleanup)

\* context.WithTimeout(context.Background(), sec seconds) is done as soon as
\* it is created when the timeout is not positive.
ExpiredAtBirth(sec) == sec <= 0

\* History: the shutdown trigger that was the first to become observable by
\* the goroutine executing Run: "signal" when a signal is buffered in the
\* signal channel, "error" when a runnable's error is sent on errChan (or, in
\* the variants without errChan, when the failing goroutine cancels the
\* context), "allDone" when `done` is closed (g.Wait() returns).
NoteTrigger(t) == IF firstTrigger = "none" THEN t ELSE firstTrigger

(***************************************************************************)
(* Initial states                                                          *)
(***************************************************************************)
Variants == {"run", "errgroup", "root", "ezapp", "ezapp040", "stop"}

\* What Run of a runnable of variant v can do: the Run() of the Stop-based
\* variant has no context to return the error of.
KindsOf(v) ==
    IF v = "stop" THEN RunnerKinds \ {"canceled", "block"} ELSE RunnerKinds

\* What Stop(ctx) of a runnable returns: nil, an error of its own, or
\* context.DeadlineExceeded when the shutdown timeout elapsed.
StopResults == {"ok", "err", "deadline"}

\* Variants that take a cleanup function.
HasCleanupHook(v) == v \in {"run", "root", "ezapp"}

\* HandleError is only consulted for a non-nil result of Run (app.go:158), in
\* EzApp.Run only for a non-cancellation error (ezapp.go:101).
ConsultsHandleError(v, k) ==
    \/ v = "errgroup" /\ k \in {"fail", "canceled", "block", "blockfail"}
    \/ v = "ezapp" /\ k \in {"fail", "blockfail"}

\* Variants whose Run starts by reporting an initialization error
\* (run.go:137-149, part_040:23-26, part_014:300-322).
ReportsInitErr(v) == v \in {"run", "ezapp040", "root"}

\* Mutant of InitFails: an initialization error does not stop Run.
InitFails_Ignored(e) == FALSE

\* Whether Run stops at the initialization error e before it starts anything.
InitFails(e) == e

\* Whether the shutdownSig of the Stop-based App delivers a value when the
\* process is interrupted: only when the caller configured such a channel
\* (WithShutdownSignal); the default of wire.defaultOptions (part_043:25-26)
\* is a nil channel, on which nothing is ever received.
ShutdownSigDelivers(option) == option

\* Values of the environment variable that holds the cleanup timeout in
\* seconds (EZAPP_TERM_TIMEOUT in run.go, EZAPP_SHUTDOWN_TIMEOUT in
\* config.ShutdownCtx): unset, not a number, zero, a positive number.
EnvValues == {"", "x", "0", "2"}

Init ==
    /\ variant \in Variants
    /\ \E n \in 0..MaxRunners : kinds \in [1..n -> KindsOf(variant)]
    /\ handles \in [1..Len(kinds) -> BOOLEAN]
    /\ \A i \in 1..Len(kinds) :
          handles[i] => ConsultsHandleError(variant, kinds[i])
    /\ appHandler \in {"none", "resolve", "fail"}
    /\ variant # "ezapp" => appHandler = "none"
    /\ hasCleanup \in BOOLEAN
    /\ hasCleanup => HasCleanupHook(variant)
    /\ opc = "init"
    /\ rpc = [i \in 1..Len(kinds) |-> "idle"]
    /\ wpc = "idle"
    /\ ctxCancelled = FALSE
    /\ stopCtxCancelled = FALSE
    /\ errChan = <<>>
    /\ errChanClosed = FALSE
    /\ doneClosed = FALSE
    /\ doneChan = <<>>
    /\ gerr = NoErr
    /\ sigChan = 0
    /\ sigsSent = 0
    /\ sigOption \in BOOLEAN
    /\ sigOption => variant = "stop"
    /\ sigSubscribed = (variant = "stop" /\ ShutdownSigDelivers(sigOption))
    /\ initErr \in BOOLEAN
    /\ initErr => ReportsInitErr(variant)
    /\ critChan \in {"nil", "served"}
    /\ variant # "stop" => critChan = "served"
    /\ timeoutEnv \in EnvValues
    /\ goIdx = 0
    /\ doneSends = 0
    /\ doneRecvs = 0
    /\ timeoutEnv # "" => ReadsTimeoutEnv(variant, hasCleanup)
    /\ exitCode = 0
    /\ reasonKind = "none"
    /\ reasonErr = NoErr
    /\ appErr = NoErr
    /\ outcome = "none"
    /\ cleanupCalls = 0
    /\ cleanupFailed = FALSE
    /\ panicked = FALSE
    /\ firstTrigger = "none"
    /\ stopRes \in [1..Len(kinds) -> StopResults]
    /\ variant # "stop" => \A i \in 1..Len(kinds) : stopRes[i] = "ok"
    /\ spc = [i \in 1..Len(kinds) |-> "idle"]
    /\ runCalls = [i \in 1..Len(kinds) |-> 0]
    /\ observed = {}
    /\ cleanupLog = <<>>

(***************************************************************************)
(* Environment: an OS signal (SIGINT/SIGTERM) is delivered by the runtime  *)
(* to the subscribed channel; a signal that finds the buffer full is       *)
(* dropped (signal.Notify never blocks).                                   *)
(***************************************************************************)
EnvSignal ==
    /\ Alive
    /\ sigSubscribed
    /\ sigsSent < MaxSignals
    /\ sigsSent' = sigsSent + 1
    /\ sigChan' = IF sigChan < SigChanCap THEN sigChan + 1 ELSE sigChan
    /\ firstTrigger' = NoteTrigger("signal")
    /\ UNCHANGED <<variant, kinds, handles, stopRes, initErr, sigOption, critChan, timeoutEnv,
                   goIdx, doneSends, doneRecvs,
                   spc, runCalls, observed, cleanupLog,
                   appHandler, hasCleanup, opc, rpc, wpc,
                   ctxCancelled, stopCtxCancelled, errChan, errChanClosed,
                   doneClosed, doneChan, gerr, sigSubscribed, exitCode,
                   reasonKind, reasonErr, appErr, outcome, cleanupCalls,
                   cleanupFailed, panicked>>

(***************************************************************************)
(* Variant "run": ezapp.Run, src/pkg/ezapp/run.go                          *)
(***************************************************************************)

\* run.go:137-149: the configuration or the builder returned an error: print
\* "Initialization error" and osExit(1).
Run_InitError ==
    /\ variant = "run" /\ opc = "init"
    /\ InitFails(initErr)
    /\ reasonKind' = "initError"
    /\ exitCode' = 1
    /\ outcome' = "exit"
    /\ opc' = "exited"
    /\ UNCHANGED <<variant, kinds, handles, stopRes, initErr, sigOption, critChan, timeoutEnv,
                   goIdx, doneSends, doneRecvs,
                   spc, runCalls, observed, cleanupLog,
                   appHandler, hasCleanup, rpc, wpc,
                   ctxCancelled, stopCtxCancelled, errChan, errChanClosed,
                   doneClosed, doneChan, gerr, sigChan, sigsSent, sigSubscribed,
                   reasonErr, appErr, cleanupCalls, cleanupFailed, panicked,
                   firstTrigger>>

\* run.go:154-159: no runnables: print and osExit(0).
Run_NoRunnables ==
    /\ variant = "run" /\ opc = "init"
    /\ ~InitFails(initErr)
    /\ N = 0
    /\ reasonKind' = "noRunnables"
    /\ exitCode' = 0
    /\ outcome' = "exit"
    /\ opc' = "exited"
    /\ UNCHANGED <<variant, kinds, handles, stopRes, initErr, sigOption, critChan, timeoutEnv,
                   goIdx, doneSends, doneRecvs,
                   spc, runCalls, observed, cleanupLog,
                   appHandler, hasCleanup, rpc, wpc,
                   ctxCancelled, stopCtxCancelled, errChan, errChanClosed,
                   doneClosed, doneChan, gerr, sigChan, sigsSent, sigSubscribed,
                   reasonErr, appErr, cleanupCalls, cleanupFailed, panicked,
                   firstTrigger>>

\* run.go:161-170 and startRunnables (54-89): signal.Notify, one goroutine per
\* runnable, the goroutine that waits on the WaitGroup.
Run_startRunnables ==
    /\ variant = "run" /\ opc = "init"
    /\ ~InitFails(initErr)
    /\ N > 0
    /\ sigSubscribed' = TRUE
    /\ rpc' = [i \in Runners |-> "spawned"]
    /\ wpc' = "waiting"
    /\ opc' = "select"
    /\ UNCHANGED <<variant, kinds, handles, stopRes, initErr, sigOption, critChan, timeoutEnv,
                   goIdx, doneSends, doneRecvs,
                   spc, runCalls, observed, cleanupLog,
                   appHandler, hasCleanup,
                   ctxCancelled, stopCtxCancelled, errChan, errChanClosed,
                   doneClosed, doneChan, gerr, sigChan, sigsSent, exitCode,
                   reasonKind, reasonErr, appErr, outcome, cleanupCalls,
                   cleanupFailed, panicked, firstTrigger>>

\* Mutant of InvokeCount: the goroutine never calls Run.
InvokeCount_Dropped(c) == c

\* The number of invocations of a runnable's Run after its goroutine called it.
InvokeCount(c) == c + 1

\* The goroutine started for runnable i calls r.Run (run.go:69, part_040:54,
\* app.go:157, ezapp.go:100, app.go:68).
runnable_Invoke(i) ==
    /\ Alive
    /\ rpc[i] = "spawned"
    /\ rpc' = [rpc EXCEPT ![i] = "running"]
    /\ runCalls' = [runCalls EXCEPT ![i] = InvokeCount(runCalls[i])]
    /\ UNCHANGED <<variant, kinds, handles, stopRes, initErr, sigOption, critChan, timeoutEnv,
                   goIdx, doneSends, doneRecvs,
                   spc, observed, cleanupLog,
                   appHandler, hasCleanup, opc, wpc,
                   ctxCancelled, stopCtxCancelled, errChan, errChanClosed,
                   doneClosed, doneChan, gerr, sigChan, sigsSent, sigSubscribed,
                   exitCode, reasonKind, reasonErr, appErr, outcome,
                   cleanupCalls, cleanupFailed, panicked, firstTrigger>>

\* run.go:69 with a nil result, then the deferred wg.Done (68).
runnable_ReturnNil(i) ==
    /\ variant \in {"run", "ezapp040"} /\ Alive
    /\ rpc[i] = "running"
    /\ CanReturn(i)
    /\ RetVal(i) = NoErr
    /\ rpc' = [rpc EXCEPT ![i] = "done"]
    /\ UNCHANGED <<variant, kinds, handles, stopRes, initErr, sigOption, critChan, timeoutEnv,
                   goIdx, doneSends, doneRecvs,
                   spc, runCalls, observed, cleanupLog,
                   appHandler, hasCleanup, opc, wpc,
                   ctxCancelled, stopCtxCancelled, errChan, errChanClosed,
                   doneClosed, doneChan, gerr, sigChan, sigsSent, sigSubscribed,
                   exitCode, reasonKind, reasonErr, appErr, outcome,
                   cleanupCalls, cleanupFailed, panicked,
                   firstTrigger>>

\* The channel after the select of run.go:70-75 took its send case.
SendErr(ch, e) == Append(ch, e)

\* run.go:69-75 with a non-nil result: the select either sends the error on
\* errChan (the buffer holds one error per runnable, so the send is always
\* ready) or, when runCtx is already cancelled, may take the Done case and
\* drop the error.  A send on a closed channel panics.
runnable_Report(i) ==
    /\ variant \in {"run", "ezapp040"} /\ Alive
    /\ rpc[i] = "running"
    /\ CanReturn(i)
    /\ RetVal(i) # NoErr
    /\ \/ /\ ~errChanClosed
          /\ errChan' = SendErr(errChan, RetVal(i))
          /\ firstTrigger' = NoteTrigger("error")
          /\ UNCHANGED panicked
       \/ /\ errChanClosed
          /\ panicked' = TRUE
          /\ UNCHANGED <<errChan, firstTrigger>>
       \/ /\ ctxCancelled
          /\ UNCHANGED <<errChan, panicked, firstTrigger>>
    /\ rpc' = [rpc EXCEPT ![i] = "reported"]
    /\ UNCHANGED <<variant, kinds, handles, stopRes, initErr, sigOption, critChan, timeoutEnv,
                   goIdx, doneSends, doneRecvs,
                   spc, runCalls, observed, cleanupLog,
                   appHandler, hasCleanup, opc, wpc,
                   ctxCancelled, stopCtxCancelled, errChanClosed,
                   doneClosed, doneChan, gerr, sigChan, sigsSent, sigSubscribed,
                   exitCode, reasonKind, reasonErr, appErr, outcome,
                   cleanupCalls, cleanupFailed>>

\* run.go:76: cancel() after the select.
runnable_Cancel(i) ==
    /\ variant \in {"run", "ezapp040"} /\ Alive
    /\ rpc[i] = "reported"
    /\ ctxCancelled' = Cancel(ctxCancelled)
    /\ rpc' = [rpc EXCEPT ![i] = "cancelled"]
    /\ UNCHANGED <<variant, kinds, handles, stopRes, initErr, sigOption, critChan, timeoutEnv,
                   goIdx, doneSends, doneRecvs,
                   spc, runCalls, observed, cleanupLog,
                   appHandler, hasCleanup, opc, wpc,
                   stopCtxCancelled, errChan, errChanClosed,
                   doneClosed, doneChan, gerr, sigChan, sigsSent, sigSubscribed,
                   exitCode, reasonKind, reasonErr, appErr, outcome,
                   cleanupCalls, cleanupFailed, panicked, firstTrigger>>

\* run.go:68: the deferred wg.Done of a goroutine whose runnable failed.
runnable_Done(i) ==
    /\ variant \in {"run", "ezapp040"} /\ Alive
    /\ rpc[i] = "cancelled"
    /\ rpc' = [rpc EXCEPT ![i] = "done"]
    /\ UNCHANGED <<variant, kinds, handles, stopRes, initErr, sigOption, critChan, timeoutEnv,
                   goIdx, doneSends, doneRecvs,
                   spc, runCalls, observed, cleanupLog,
                   appHandler, hasCleanup, opc, wpc,
                   ctxCancelled, stopCtxCancelled, errChan, errChanClosed,
                   doneClosed, doneChan, gerr, sigChan, sigsSent, sigSubscribed,
                   exitCode, reasonKind, reasonErr, appErr, outcome,
                   cleanupCalls, cleanupFailed, panicked, firstTrigger>>

\* run.go:83-86: wg.Wait() returns once every goroutine called wg.Done; close(done).
waiter_CloseDone ==
    /\ variant \in {"run", "ezapp040"} /\ Alive
    /\ wpc = "waiting"
    /\ AllGoroutinesDone
    /\ doneClosed' = TRUE
    /\ wpc' = "done"
    /\ firstTrigger' = NoteTrigger("allDone")
    /\ UNCHANGED <<variant, kinds, handles, stopRes, initErr, sigOption, critChan, timeoutEnv,
                   goIdx, doneSends, doneRecvs,
                   spc, runCalls, observed, cleanupLog,
                   appHandler, hasCleanup, opc, rpc,
                   ctxCancelled, stopCtxCancelled, errChan, errChanClosed,
                   doneChan, gerr, sigChan, sigsSent, sigSubscribed,
                   exitCode, reasonKind, reasonErr, appErr, outcome,
                   cleanupCalls, cleanupFailed, panicked>>

\* Mutant of ShutdownExit: the exit codes of the cases are swapped.
ShutdownExit_Swapped(reason) == IF reason = "error" THEN 0 ELSE 1

\* The exit code waitForShutdown assigns in each case of its select
\* (run.go:101, 106, 110).
ShutdownExit(reason) == IF reason = "error" THEN 1 ELSE 0

\* run.go:97-101: the select of waitForShutdown takes the signal case.
waitForShutdown_Signal ==
    /\ variant = "run" /\ opc = "select"
    /\ sigChan > 0
    /\ sigChan' = sigChan - 1
    /\ reasonKind' = "signal"
    /\ ctxCancelled' = Cancel(ctxCancelled)
    /\ exitCode' = ShutdownExit("signal")
    /\ opc' = "drain"
    /\ UNCHANGED <<variant, kinds, handles, stopRes, initErr, sigOption, critChan, timeoutEnv,
                   goIdx, doneSends, doneRecvs,
                   spc, runCalls, observed, cleanupLog,
                   appHandler, hasCleanup, rpc, wpc,
                   stopCtxCancelled, errChan, errChanClosed, doneClosed,
                   doneChan, gerr, sigsSent, sigSubscribed, reasonErr, appErr,
                   outcome, cleanupCalls, cleanupFailed, panicked, firstTrigger>>

\* run.go:102-106: the select of waitForShutdown takes the errChan case.
waitForShutdown_Err ==
    /\ variant = "run" /\ opc = "select"
    /\ Len(errChan) > 0
    /\ errChan' = Tail(errChan)
    /\ reasonKind' = "error"
    /\ reasonErr' = Head(errChan)
    /\ observed' = Observe("errChan", Head(errChan))
    /\ exitCode' = ShutdownExit("error")
    /\ opc' = "drain"
    /\ UNCHANGED <<variant, kinds, handles, stopRes, initErr, sigOption, critChan, timeoutEnv,
                   goIdx, doneSends, doneRecvs,
                   spc, runCalls, cleanupLog,
                   appHandler, hasCleanup, rpc, wpc,
                   ctxCancelled, stopCtxCancelled, errChanClosed, doneClosed,
                   doneChan, gerr, sigChan, sigsSent, sigSubscribed, appErr,
                   outcome, cleanupCalls, cleanupFailed, panicked, firstTrigger>>

\* run.go:107-110: the select of waitForShutdown takes the done case.
waitForShutdown_Done ==
    /\ variant = "run" /\ opc = "select"
    /\ doneClosed
    /\ reasonKind' = "allDone"
    /\ exitCode' = ShutdownExit("allDone")
    /\ opc' = "drain"
    /\ UNCHANGED <<variant, kinds, handles, stopRes, initErr, sigOption, critChan, timeoutEnv,
                   goIdx, doneSends, doneRecvs,
                   spc, runCalls, observed, cleanupLog,
                   appHandler, hasCleanup, rpc, wpc,
                   ctxCancelled, stopCtxCancelled, errChan, errChanClosed,
                   doneClosed, doneChan, gerr, sigChan, sigsSent, sigSubscribed,
                   reasonErr, appErr, outcome, cleanupCalls, cleanupFailed,
                   panicked, firstTrigger>>

\* Mutant of DrainWaits: Run never waits on done.
DrainWaits_Never(reason) == FALSE

\* run.go:178: whether Run waits on <-done after waitForShutdown returned:
\* unless the reason is "All runnables completed successfully".
DrainWaits(reason) == reason # "allDone"

\* run.go:177-180: unless the reason is "all completed", block on <-done.
Run_Drain ==
    /\ variant = "run" /\ opc = "drain"
    /\ DrainWaits(reasonKind) => doneClosed
    /\ opc' = "closeErr"
    /\ UNCHANGED <<variant, kinds, handles, stopRes, initErr, sigOption, critChan, timeoutEnv,
                   goIdx, doneSends, doneRecvs,
                   spc, runCalls, observed, cleanupLog,
                   appHandler, hasCleanup, rpc, wpc,
                   ctxCancelled, stopCtxCancelled, errChan, errChanClosed,
                   doneClosed, doneChan, gerr, sigChan, sigsSent, sigSubscribed,
                   exitCode, reasonKind, reasonErr, appErr, outcome,
                   cleanupCalls, cleanupFailed, panicked, firstTrigger>>

\* run.go:183: close(errChan).
Run_CloseErrChan ==
    /\ variant = "run" /\ opc = "closeErr"
    /\ errChanClosed' = TRUE
    /\ opc' = "cleanup"
    /\ UNCHANGED <<variant, kinds, handles, stopRes, initErr, sigOption, critChan, timeoutEnv,
                   goIdx, doneSends, doneRecvs,
                   spc, runCalls, observed, cleanupLog,
                   appHandler, hasCleanup, rpc, wpc,
                   ctxCancelled, stopCtxCancelled, errChan, doneClosed,
                   doneChan, gerr, sigChan, sigsSent, sigSubscribed,
                   exitCode, reasonKind, reasonErr, appErr, outcome,
                   cleanupCalls, cleanupFailed, panicked, firstTrigger>>

\* Mutant of CleanupExitCode: the exit code is 1 after any cleanup.
CleanupExitCode_AlwaysOne(code, failed) == 1

\* Mutant of CleanupExitCode: a cleanup error is printed but the exit code is
\* left as it was.
CleanupExitCode_Ignored(code, failed) == code

\* The exit code after the cleanup function returned (run.go:187-191, runCleanup
\* 124-128): a cleanup error replaces it by 1.
CleanupExitCode(code, failed) == IF failed THEN 1 ELSE code

\* run.go:185-192: call the cleanup function if there is one; its result is an
\* input.
Run_Cleanup ==
    /\ variant = "run" /\ opc = "cleanup"
    /\ \/ /\ hasCleanup
          /\ \E failed \in BOOLEAN :
                /\ cleanupFailed' = failed
                /\ exitCode' = CleanupExitCode(exitCode, failed)
          /\ cleanupCalls' = cleanupCalls + 1
          /\ cleanupLog' = Append(cleanupLog,
                CleanupBegin(ctxCancelled, TRUE,
                             ExpiredAtBirth(GetCleanupTimeout(timeoutEnv))))
       \/ /\ ~hasCleanup
          /\ UNCHANGED <<cleanupCalls, cleanupFailed, exitCode, cleanupLog>>
    /\ opc' = "finish"
    /\ UNCHANGED <<variant, kinds, handles, stopRes, initErr, sigOption, critChan, timeoutEnv,
                   goIdx, doneSends, doneRecvs,
                   spc, runCalls, observed,
                   appHandler, hasCleanup, rpc, wpc,
                   ctxCancelled, stopCtxCancelled, errChan, errChanClosed,
                   doneClosed, doneChan, gerr, sigChan, sigsSent, sigSubscribed,
                   reasonKind, reasonErr, appErr, outcome, panicked,
                   firstTrigger>>

\* run.go:193-198: signal.Stop, close(sigChan), runnablesCancel(), osExit(exitCode).
Run_Finish ==
    /\ variant = "run" /\ opc = "finish"
    /\ sigSubscribed' = FALSE
    /\ ctxCancelled' = Cancel(ctxCancelled)
    /\ outcome' = "exit"
    /\ opc' = "exited"
    /\ UNCHANGED <<variant, kinds, handles, stopRes, initErr, sigOption, critChan, timeoutEnv,
                   goIdx, doneSends, doneRecvs,
                   spc, runCalls, observed, cleanupLog,
                   appHandler, hasCleanup, rpc, wpc,
                   stopCtxCancelled, errChan, errChanClosed, doneClosed,
                   doneChan, gerr, sigChan, sigsSent, exitCode, reasonKind,
                   reasonErr, appErr, cleanupCalls, cleanupFailed, panicked,
                   firstTrigger>>

(***************************************************************************)
(* Variant "errgroup": App.Run, src/internal/app/app.go:144-204, of the    *)
(* App made by New, src/internal/app/app.go:114-134.                       *)
(***************************************************************************)

\* app.go:114-134: New creates stopCtx, subscribes sigTerm to SIGINT and
\* SIGTERM with signal.Notify (125) and returns the App to its caller; no
\* goroutine of a runnable exists yet.
App_New ==
    /\ variant = "errgroup" /\ opc = "init"
    /\ sigSubscribed' = TRUE
    /\ opc' = "new"
    /\ UNCHANGED <<variant, kinds, handles, stopRes, initErr, sigOption, critChan, timeoutEnv,
                   goIdx, doneSends, doneRecvs,
                   spc, runCalls, observed, cleanupLog,
                   appHandler, hasCleanup,
                   ctxCancelled, stopCtxCancelled, errChan, errChanClosed,
                   doneClosed, doneChan, gerr, sigChan, sigsSent, exitCode,
                   reasonKind, reasonErr, appErr, outcome, cleanupCalls,
                   cleanupFailed, panicked, firstTrigger, rpc, wpc>>

\* Mutant of Captured: the closure reads the loop variable itself, which
\* holds the last runnable of the list by the time the goroutines run.
Captured_LoopVar(k) == N

\* app.go:152: `runnable := r`: the closure of the k-th iteration of the loop
\* runs the k-th runnable of the list.
Captured(k) == k

\* app.go:148-171: one iteration of the loop of Run (the first one follows
\* errgroup.WithContext(a.stopCtx)): g.Go starts the goroutine of the next
\* runnable of the list, while the goroutines started before it already run.
App_Go ==
    /\ variant = "errgroup" /\ opc = "new"
    /\ goIdx < N
    /\ goIdx' = goIdx + 1
    /\ rpc' = [rpc EXCEPT ![Captured(goIdx + 1)] = "spawned"]
    /\ UNCHANGED <<variant, kinds, handles, stopRes, initErr, sigOption, critChan, timeoutEnv,
                   doneSends, doneRecvs,
                   spc, runCalls, observed, cleanupLog,
                   appHandler, hasCleanup,
                   ctxCancelled, stopCtxCancelled, errChan, errChanClosed,
                   doneClosed, doneChan, gerr, sigChan, sigsSent, exitCode,
                   reasonKind, reasonErr, appErr, outcome, cleanupCalls,
                   cleanupFailed, panicked, firstTrigger, opc, wpc, sigSubscribed>>

\* app.go:174-183: after the loop Run makes `done`, starts the goroutine that
\* sends g.Wait() on it and reaches its select.
App_GoWait ==
    /\ variant = "errgroup" /\ opc = "new"
    /\ goIdx = N
    /\ wpc' = "waiting"
    /\ opc' = "select"
    /\ UNCHANGED <<variant, kinds, handles, stopRes, initErr, sigOption, critChan, timeoutEnv,
                   goIdx, doneSends, doneRecvs,
                   spc, runCalls, observed, cleanupLog,
                   appHandler, hasCleanup,
                   ctxCancelled, stopCtxCancelled, errChan, errChanClosed,
                   doneClosed, doneChan, gerr, sigChan, sigsSent, exitCode,
                   reasonKind, reasonErr, appErr, outcome, cleanupCalls,
                   cleanupFailed, panicked, firstTrigger, rpc, sigSubscribed>>

\* Mutant of HandleError: no runnable resolves an error.
HandleError_NeverResolves(i, err) == err

\* What runnable.HandleError(err) returns (app.go:161): nil when the runnable
\* resolves the error, the error itself otherwise.
HandleError(i, err) == IF handles[i] THEN NoErr ELSE err

\* What the g.Go closure of runnable i is going to return (app.go:157-169).
HandledErr(i) == IF RetVal(i) = NoErr THEN NoErr ELSE HandleError(i, RetVal(i))

\* app.go:157-169 returning nil (Run returned nil, or HandleError resolved the
\* error), then errgroup's done().
goroutine_ReturnNil(i) ==
    /\ variant = "errgroup" /\ Alive
    /\ rpc[i] = "running"
    /\ CanReturn(i)
    /\ HandledErr(i) = NoErr
    /\ observed' = IF RetVal(i) # NoErr
                   THEN Observe("HandleError", RetVal(i)) ELSE observed
    /\ rpc' = [rpc EXCEPT ![i] = "done"]
    /\ UNCHANGED <<variant, kinds, handles, stopRes, initErr, sigOption, critChan, timeoutEnv,
                   goIdx, doneSends, doneRecvs,
                   spc, runCalls, cleanupLog,
                   appHandler, hasCleanup, opc, wpc,
                   ctxCancelled, stopCtxCancelled, errChan, errChanClosed,
                   doneClosed, doneChan, gerr, sigChan, sigsSent, sigSubscribed,
                   exitCode, reasonKind, reasonErr, appErr, outcome,
                   cleanupCalls, cleanupFailed, panicked,
                   firstTrigger>>

\* Mutant of Propagate: the group context is built on a context of its own,
\* so a cancel of stopCtx does not reach it.
Propagate_Detached(parent, child) == child

\* app.go:148: g, ctx := errgroup.WithContext(a.stopCtx): the context handed
\* to the runnables is a child of stopCtx, done as soon as its parent is
\* cancelled (or the group cancels it).
Propagate(parent, child) == parent \/ child

\* app.go:157-165: Run returned an error that HandleError left unresolved:
\* a.stopCtxCancel() (which also cancels the derived group context).
goroutine_StopCtxCancel(i) ==
    /\ variant = "errgroup" /\ Alive
    /\ rpc[i] = "running"
    /\ CanReturn(i)
    /\ HandledErr(i) # NoErr
    /\ observed' = Observe("HandleError", RetVal(i))
    /\ stopCtxCancelled' = Cancel(stopCtxCancelled)
    /\ ctxCancelled' = Propagate(stopCtxCancelled', ctxCancelled)
    /\ rpc' = [rpc EXCEPT ![i] = "cancelled"]
    /\ firstTrigger' = NoteTrigger("error")
    /\ UNCHANGED <<variant, kinds, handles, stopRes, initErr, sigOption, critChan, timeoutEnv,
                   goIdx, doneSends, doneRecvs,
                   spc, runCalls, cleanupLog,
                   appHandler, hasCleanup, opc, wpc,
                   errChan, errChanClosed, doneClosed, doneChan, gerr, sigChan,
                   sigsSent, sigSubscribed, exitCode, reasonKind, reasonErr,
                   appErr, outcome, cleanupCalls, cleanupFailed, panicked>>

\* errgroup's errOnce: the first non-nil error returned by a g.Go function
\* is kept in g.err, later ones are dropped.
ErrOnce(cur, err) == IF cur = NoErr THEN err ELSE cur

\* app.go:166: `return handledErr`; errgroup stores the first error (errOnce),
\* cancels the group context and calls done().
goroutine_ReturnErr(i) ==
    /\ variant = "errgroup" /\ Alive
    /\ rpc[i] = "cancelled"
    /\ gerr' = ErrOnce(gerr, HandledErr(i))
    /\ ctxCancelled' = Cancel(ctxCancelled)
    /\ rpc' = [rpc EXCEPT ![i] = "done"]
    /\ UNCHANGED <<variant, kinds, handles, stopRes, initErr, sigOption, critChan, timeoutEnv,
                   goIdx, doneSends, doneRecvs,
                   spc, runCalls, observed, cleanupLog,
                   appHandler, hasCleanup, opc, wpc,
                   stopCtxCancelled, errChan, errChanClosed, doneClosed,
                   doneChan, sigChan, sigsSent, sigSubscribed, exitCode,
                   reasonKind, reasonErr, appErr, outcome, cleanupCalls,
                   cleanupFailed, panicked, firstTrigger>>

\* app.go:178: g.Wait() returns once every g.Go function returned; Wait cancels
\* the group context before it returns g.err.
group_Wait ==
    /\ variant = "errgroup" /\ Alive
    /\ wpc = "waiting"
    /\ AllGoroutinesDone
    /\ ctxCancelled' = Cancel(ctxCancelled)
    /\ wpc' = "send"
    /\ firstTrigger' = NoteTrigger("allDone")
    /\ UNCHANGED <<variant, kinds, handles, stopRes, initErr, sigOption, critChan, timeoutEnv,
                   goIdx, doneSends, doneRecvs,
                   spc, runCalls, observed, cleanupLog,
                   appHandler, hasCleanup, opc, rpc,
                   stopCtxCancelled, errChan, errChanClosed, doneClosed,
                   doneChan, gerr, sigChan, sigsSent, sigSubscribed, exitCode,
                   reasonKind, reasonErr, appErr, outcome, cleanupCalls,
                   cleanupFailed, panicked>>

\* Mutant of DoneHasRoom: `done` has no buffer to take the value.
DoneHasRoom_Unbuffered(ch) == Len(ch) < 0

\* app.go:174: done := make(chan error, 1): a send proceeds without a
\* receiver while the buffer of one is not full.
DoneCap == 1

DoneHasRoom(ch) == Len(ch) < DoneCap

\* app.go:178: done <- g.Wait() (the channel has a buffer of one).
group_SendDone ==
    /\ variant = "errgroup" /\ Alive
    /\ wpc = "send"
    /\ DoneHasRoom(doneChan)
    /\ doneChan' = Append(doneChan, gerr)
    /\ wpc' = "done"
    /\ doneSends' = doneSends + 1
    /\ UNCHANGED <<variant, kinds, handles, stopRes, initErr, sigOption, critChan, timeoutEnv,
                   goIdx, doneRecvs,
                   spc, runCalls, observed, cleanupLog,
                   appHandler, hasCleanup, opc, rpc,
                   ctxCancelled, stopCtxCancelled, errChan, errChanClosed,
                   doneClosed, gerr, sigChan, sigsSent, sigSubscribed, exitCode,
                   reasonKind, reasonErr, appErr, outcome, cleanupCalls,
                   cleanupFailed, panicked, firstTrigger>>

\* Mutant of FilterErr: context.Canceled is returned like any other error.
FilterErr_KeepCanceled(err) == err

\* app.go:196-203: context.Canceled (and nil) become a nil return value.
FilterErr(err) == IF err # NoErr /\ err # Canceled THEN err ELSE NoErr

\* app.go:184-186: the select takes the sigTerm case and cancels stopCtx.
AppRun_SelectSignal ==
    /\ variant = "errgroup" /\ opc = "select"
    /\ sigChan > 0
    /\ sigChan' = sigChan - 1
    /\ stopCtxCancelled' = Cancel(stopCtxCancelled)
    /\ ctxCancelled' = Propagate(stopCtxCancelled', ctxCancelled)
    /\ reasonKind' = "signal"
    /\ opc' = "recvDone"
    /\ UNCHANGED <<variant, kinds, handles, stopRes, initErr, sigOption, critChan, timeoutEnv,
                   goIdx, doneSends, doneRecvs,
                   spc, runCalls, observed, cleanupLog,
                   appHandler, hasCleanup, rpc, wpc,
                   errChan, errChanClosed, doneClosed, doneChan, gerr,
                   sigsSent, sigSubscribed, exitCode, reasonErr, appErr,
                   outcome, cleanupCalls, cleanupFailed, panicked, firstTrigger>>

\* app.go:188-189: the select takes the ctx.Done() case.
AppRun_SelectCtxDone ==
    /\ variant = "errgroup" /\ opc = "select"
    /\ ctxCancelled
    /\ reasonKind' = "ctxDone"
    /\ opc' = "recvDone"
    /\ UNCHANGED <<variant, kinds, handles, stopRes, initErr, sigOption, critChan, timeoutEnv,
                   goIdx, doneSends, doneRecvs,
                   spc, runCalls, observed, cleanupLog,
                   appHandler, hasCleanup, rpc, wpc,
                   ctxCancelled, stopCtxCancelled, errChan, errChanClosed,
                   doneClosed, doneChan, gerr, sigChan, sigsSent, sigSubscribed,
                   exitCode, reasonErr, appErr, outcome, cleanupCalls,
                   cleanupFailed, panicked, firstTrigger>>

\* app.go:192-203: the select takes the done case; Run returns.
AppRun_SelectDone ==
    /\ variant = "errgroup" /\ opc = "select"
    /\ Len(doneChan) > 0
    /\ doneChan' = Tail(doneChan)
    /\ appErr' = FilterErr(Head(doneChan))
    /\ reasonKind' = "allDone"
    /\ outcome' = "returned"
    /\ opc' = "exited"
    /\ doneRecvs' = doneRecvs + 1
    /\ UNCHANGED <<variant, kinds, handles, stopRes, initErr, sigOption, critChan, timeoutEnv,
                   goIdx, doneSends,
                   spc, runCalls, observed, cleanupLog,
                   appHandler, hasCleanup, rpc, wpc,
                   ctxCancelled, stopCtxCancelled, errChan, errChanClosed,
                   doneClosed, gerr, sigChan, sigsSent, sigSubscribed,
                   exitCode, reasonErr, cleanupCalls, cleanupFailed,
                   panicked, firstTrigger>>

\* app.go:187 / 191 and 196-203: err = <-done after the signal or ctx.Done()
\* case; Run returns.
AppRun_RecvDone ==
    /\ variant = "errgroup" /\ opc = "recvDone"
    /\ Len(doneChan) > 0
    /\ doneChan' = Tail(doneChan)
    /\ appErr' = FilterErr(Head(doneChan))
    /\ outcome' = "returned"
    /\ opc' = "exited"
    /\ doneRecvs' = doneRecvs + 1
    /\ UNCHANGED <<variant, kinds, handles, stopRes, initErr, sigOption, critChan, timeoutEnv,
                   goIdx, doneSends,
                   spc, runCalls, observed, cleanupLog,
                   appHandler, hasCleanup, rpc, wpc,
                   ctxCancelled, stopCtxCancelled, errChan, errChanClosed,
                   doneClosed, gerr, sigChan, sigsSent, sigSubscribed,
                   exitCode, reasonKind, reasonErr, cleanupCalls,
                   cleanupFailed, panicked, firstTrigger>>

(***************************************************************************)
(* Variant "root": the root Run, src/unnamed/part_014:294-355, and the     *)
(* Runner-based App it creates and runs (part_014:325-326).  The source of *)
(* that App is not in src/: its steps follow the orchestrator of the       *)
(* specification (sections 4.1 to 4.4) and the tests of the App,           *)
(* src/unnamed/part_009:443-888.                                           *)
(***************************************************************************)

\* part_014:300-322: whether the root Run ends before it creates the App:
\* config.LoadVar or the initializer returned an error (an input), or
\* config.StartupCtx rejected the timeout variable.
RootInitFails(e, str) == InitFails(e) \/ ~StartupCtx(str).ok

\* part_014:300-322: config.LoadVar, config.StartupCtx or the initializer
\* returned an error: logger.Fatal ends the process with status 1 before
\* app.New and Run are called.
Root_InitError ==
    /\ variant = "root" /\ opc = "init"
    /\ RootInitFails(initErr, timeoutEnv)
    /\ reasonKind' = "initError"
    /\ exitCode' = 1
    /\ outcome' = "fatal_init"
    /\ opc' = "exited"
    /\ UNCHANGED <<variant, kinds, handles, stopRes, initErr, sigOption, critChan, timeoutEnv,
                   goIdx, doneSends, doneRecvs,
                   spc, runCalls, observed, cleanupLog,
                   appHandler, hasCleanup, rpc, wpc,
                   ctxCancelled, stopCtxCancelled, errChan, errChanClosed,
                   doneClosed, doneChan, gerr, sigChan, sigsSent, sigSubscribed,
                   reasonErr, appErr, cleanupCalls, cleanupFailed, panicked,
                   firstTrigger>>

\* part_014:325-326, the App as specified (4.1, 4.4) and tested
\* (part_009:558-574): Run starts listening for SIGINT and SIGTERM and starts
\* every runner on a goroutine of its own through an error group, all with
\* the one termination context.
RootApp_Start ==
    /\ variant = "root" /\ opc = "init"
    /\ ~RootInitFails(initErr, timeoutEnv)
    /\ sigSubscribed' = TRUE
    /\ rpc' = [i \in Runners |-> "spawned"]
    /\ opc' = "wait"
    /\ UNCHANGED <<variant, kinds, handles, stopRes, initErr, sigOption, critChan, timeoutEnv,
                   goIdx, doneSends, doneRecvs,
                   spc, runCalls, observed, cleanupLog,
                   appHandler, hasCleanup, wpc,
                   ctxCancelled, stopCtxCancelled, errChan, errChanClosed,
                   doneClosed, doneChan, gerr, sigChan, sigsSent,
                   exitCode, reasonKind, reasonErr, appErr, outcome,
                   cleanupCalls, cleanupFailed, panicked, firstTrigger>>

\* A runner returned nil (part_009:558-574, 581-606).
rootrunner_ReturnNil(i) ==
    /\ variant = "root" /\ Alive
    /\ rpc[i] = "running"
    /\ CanReturn(i)
    /\ RetVal(i) = NoErr
    /\ rpc' = [rpc EXCEPT ![i] = "done"]
    /\ UNCHANGED <<variant, kinds, handles, stopRes, initErr, sigOption, critChan, timeoutEnv,
                   goIdx, doneSends, doneRecvs,
                   spc, runCalls, observed, cleanupLog,
                   appHandler, hasCleanup, opc, wpc,
                   ctxCancelled, stopCtxCancelled, errChan, errChanClosed,
                   doneClosed, doneChan, gerr, sigChan, sigsSent, sigSubscribed,
                   exitCode, reasonKind, reasonErr, appErr, outcome,
                   cleanupCalls, cleanupFailed, panicked, firstTrigger>>

\* A runner returned an error, the context's error included
\* (part_009:613-628, 684-710, 717-774): the first error is retained, wrapped
\* ("failed to invoke runnable: ..."), later ones are discarded
\* (specification 4.1, 4.3), and the termination context is cancelled for the
\* other runners.
rootrunner_ReturnErr(i) ==
    /\ variant = "root" /\ Alive
    /\ rpc[i] = "running"
    /\ CanReturn(i)
    /\ RetVal(i) # NoErr
    /\ gerr' = ErrOnce(gerr, RetVal(i))
    /\ ctxCancelled' = Cancel(ctxCancelled)
    /\ rpc' = [rpc EXCEPT ![i] = "done"]
    /\ firstTrigger' = NoteTrigger("error")
    /\ UNCHANGED <<variant, kinds, handles, stopRes, initErr, sigOption, critChan, timeoutEnv,
                   goIdx, doneSends, doneRecvs,
                   spc, runCalls, observed, cleanupLog,
                   appHandler, hasCleanup, opc, wpc,
                   stopCtxCancelled, errChan, errChanClosed,
                   doneClosed, doneChan, sigChan, sigsSent, sigSubscribed,
                   exitCode, reasonKind, reasonErr, appErr, outcome,
                   cleanupCalls, cleanupFailed, panicked>>

\* The termination signaller (specification 4.4, part_009:717-774): it
\* translates the first SIGINT or SIGTERM into one cancellation of the
\* termination context and stops listening.
RootApp_Signal ==
    /\ variant = "root" /\ opc = "wait"
    /\ sigSubscribed
    /\ sigChan > 0
    /\ sigChan' = sigChan - 1
    /\ ctxCancelled' = Cancel(ctxCancelled)
    /\ sigSubscribed' = FALSE
    /\ reasonKind' = "signal"
    /\ UNCHANGED <<variant, kinds, handles, stopRes, initErr, sigOption, critChan, timeoutEnv,
                   goIdx, doneSends, doneRecvs,
                   spc, runCalls, observed, cleanupLog,
                   appHandler, hasCleanup, opc, rpc, wpc,
                   stopCtxCancelled, errChan, errChanClosed,
                   doneClosed, doneChan, gerr, sigsSent,
                   exitCode, reasonErr, appErr, outcome,
                   cleanupCalls, cleanupFailed, panicked, firstTrigger>>

\* The shutdown reason the App ends with when none was set by a signal.
RootReason(cur, err) ==
    IF cur # "none" THEN cur
    ELSE IF err # NoErr THEN "error" ELSE "allDone"

\* Every runner has returned (specification 4.1; part_009:539-551, 613-628,
\* 717-774): Run stops listening for signals and returns the retained error,
\* nil when no runner returned one.
RootApp_Return ==
    /\ variant = "root" /\ opc = "wait"
    /\ AllGoroutinesDone
    /\ appErr' = gerr
    /\ reasonKind' = RootReason(reasonKind, gerr)
    /\ ctxCancelled' = Cancel(ctxCancelled)
    /\ sigSubscribed' = FALSE
    /\ opc' = "cleanup"
    /\ firstTrigger' = NoteTrigger("allDone")
    /\ UNCHANGED <<variant, kinds, handles, stopRes, initErr, sigOption, critChan, timeoutEnv,
                   goIdx, doneSends, doneRecvs,
                   spc, runCalls, observed, cleanupLog,
                   appHandler, hasCleanup, rpc, wpc,
                   stopCtxCancelled, errChan, errChanClosed,
                   doneClosed, doneChan, gerr, sigChan, sigsSent,
                   exitCode, reasonErr, outcome,
                   cleanupCalls, cleanupFailed, panicked>>

\* context.DeadlineExceeded
DeadlineExceeded == -2

\* The runners that have not returned are runners that never return.
OnlyStragglersLeft ==
    /\ ~AllGoroutinesDone
    /\ \A i \in Runners :
          rpc[i] # "done" => (rpc[i] = "running" /\ kinds[i] = "hang")

\* Specification 4.1, 4.3: the shutdown timer fires after the cancellation
\* while a runner has still not returned: the shutdown is forced, Run stops
\* waiting and reports the deadline-exceeded condition.
RootApp_Forced ==
    /\ variant = "root" /\ opc = "wait"
    /\ ctxCancelled
    /\ OnlyStragglersLeft
    /\ appErr' = DeadlineExceeded
    /\ reasonKind' = RootReason(reasonKind, gerr)
    /\ sigSubscribed' = FALSE
    /\ opc' = "cleanup"
    /\ UNCHANGED <<variant, kinds, handles, stopRes, initErr, sigOption, critChan, timeoutEnv,
                   goIdx, doneSends, doneRecvs,
                   spc, runCalls, observed, cleanupLog,
                   appHandler, hasCleanup, rpc, wpc,
                   ctxCancelled, stopCtxCancelled, errChan, errChanClosed,
                   doneClosed, doneChan, gerr, sigChan, sigsSent,
                   exitCode, reasonErr, outcome,
                   cleanupCalls, cleanupFailed, panicked, firstTrigger>>

\* Mutant of RootOutcome: a cleanup error is reported before the app's error.
RootOutcome_CleanupFirst(err, failed) ==
    IF failed THEN "fatal_cleanup"
    ELSE IF err # NoErr THEN "fatal_app"
    ELSE "success"

\* How the root Run ends after the cleanup function returned
\* (part_014:338-355): a cleanup error is fatal only when the app succeeded.
RootOutcome(err, failed) ==
    IF failed /\ err = NoErr THEN "fatal_cleanup"
    ELSE IF err # NoErr THEN "fatal_app"
    ELSE "success"

\* part_014:328-355: the root Run after application.Run() returned.  With a
\* cleanup function: config.ShutdownCtx() fails on an invalid
\* EZAPP_SHUTDOWN_TIMEOUT (which config.StartupCtx rejected before, so that
\* with an unchanged environment this exit is not taken), otherwise the
\* cleanup function runs (its result is an input).  Then the result of the
\* app decides.
Root_Finish ==
    /\ variant = "root" /\ opc = "cleanup"
    /\ \/ /\ hasCleanup
          /\ \E failed \in BOOLEAN :
                IF ShutdownCtx(timeoutEnv).ok
                THEN /\ cleanupFailed' = failed
                     /\ outcome' = RootOutcome(appErr, failed)
                     /\ cleanupCalls' = cleanupCalls + 1
                     /\ cleanupLog' = Append(cleanupLog,
                           CleanupBegin(ctxCancelled, TRUE,
                              ExpiredAtBirth(ShutdownCtx(timeoutEnv).sec)))
                ELSE /\ outcome' = "fatal_shutdownctx"
                     /\ UNCHANGED <<cleanupCalls, cleanupFailed, cleanupLog>>
       \/ /\ ~hasCleanup
          /\ outcome' = RootOutcome(appErr, FALSE)
          /\ UNCHANGED <<cleanupCalls, cleanupFailed, cleanupLog>>
    /\ exitCode' = IF outcome' = "success" THEN 0 ELSE 1
    /\ opc' = "exited"
    /\ UNCHANGED <<variant, kinds, handles, stopRes, initErr, sigOption, critChan, timeoutEnv,
                   goIdx, doneSends, doneRecvs,
                   spc, runCalls, observed,
                   appHandler, hasCleanup, rpc, wpc,
                   ctxCancelled, stopCtxCancelled, errChan, errChanClosed,
                   doneClosed, doneChan, gerr, sigChan, sigsSent, sigSubscribed,
                   reasonKind, reasonErr, appErr, panicked, firstTrigger>>

(***************************************************************************)
(* Variant "ezapp040": EzApp.Run, src/unnamed/part_040:20-100.  Its runnable*)
(* goroutines and its WaitGroup goroutine (part_040:50-71) are the ones of *)
(* run.go.                                                                 *)
(***************************************************************************)

\* part_040:23-26: the app carries an initialization error: print it and
\* osExit(1).
EzApp040_InitError ==
    /\ variant = "ezapp040" /\ opc = "init"
    /\ InitFails(initErr)
    /\ reasonKind' = "initError"
    /\ exitCode' = 1
    /\ outcome' = "exit"
    /\ opc' = "exited"
    /\ UNCHANGED <<variant, kinds, handles, stopRes, initErr, sigOption, critChan, timeoutEnv,
                   goIdx, doneSends, doneRecvs,
                   spc, runCalls, observed, cleanupLog,
                   appHandler, hasCleanup, rpc, wpc,
                   ctxCancelled, stopCtxCancelled, errChan, errChanClosed,
                   doneClosed, doneChan, gerr, sigChan, sigsSent, sigSubscribed,
                   reasonErr, appErr, cleanupCalls, cleanupFailed, panicked,
                   firstTrigger>>

\* part_040:28-32: no runnables: print and osExit(0).
EzApp040_NoRunnables ==
    /\ variant = "ezapp040" /\ opc = "init"
    /\ ~InitFails(initErr)
    /\ N = 0
    /\ reasonKind' = "noRunnables"
    /\ exitCode' = 0
    /\ outcome' = "exit"
    /\ opc' = "exited"
    /\ UNCHANGED <<variant, kinds, handles, stopRes, initErr, sigOption, critChan, timeoutEnv,
                   goIdx, doneSends, doneRecvs,
                   spc, runCalls, observed, cleanupLog,
                   appHandler, hasCleanup, rpc, wpc,
                   ctxCancelled, stopCtxCancelled, errChan, errChanClosed,
                   doneClosed, doneChan, gerr, sigChan, sigsSent, sigSubscribed,
                   reasonErr, appErr, cleanupCalls, cleanupFailed, panicked,
                   firstTrigger>>

\* part_040:34-71: signal.Notify, one goroutine per runnable, the WaitGroup
\* goroutine.
EzApp040_Start ==
    /\ variant = "ezapp040" /\ opc = "init"
    /\ ~InitFails(initErr)
    /\ N > 0
    /\ sigSubscribed' = TRUE
    /\ rpc' = [i \in Runners |-> "spawned"]
    /\ wpc' = "waiting"
    /\ opc' = "select"
    /\ UNCHANGED <<variant, kinds, handles, stopRes, initErr, sigOption, critChan, timeoutEnv,
                   goIdx, doneSends, doneRecvs,
                   spc, runCalls, observed, cleanupLog,
                   appHandler, hasCleanup,
                   ctxCancelled, stopCtxCancelled, errChan, errChanClosed,
                   doneClosed, doneChan, gerr, sigChan, sigsSent, exitCode,
                   reasonKind, reasonErr, appErr, outcome, cleanupCalls,
                   cleanupFailed, panicked, firstTrigger>>

\* part_040:76-80: the select takes the signal case.
EzApp040_SelectSignal ==
    /\ variant = "ezapp040" /\ opc = "select"
    /\ sigChan > 0
    /\ sigChan' = sigChan - 1
    /\ reasonKind' = "signal"
    /\ ctxCancelled' = Cancel(ctxCancelled)
    /\ exitCode' = 0
    /\ opc' = "drain"
    /\ UNCHANGED <<variant, kinds, handles, stopRes, initErr, sigOption, critChan, timeoutEnv,
                   goIdx, doneSends, doneRecvs,
                   spc, runCalls, observed, cleanupLog,
                   appHandler, hasCleanup, rpc, wpc,
                   stopCtxCancelled, errChan, errChanClosed, doneClosed,
                   doneChan, gerr, sigsSent, sigSubscribed, reasonErr, appErr,
                   outcome, cleanupCalls, cleanupFailed, panicked, firstTrigger>>

\* part_040:81-85: the select takes the errChan case.
EzApp040_SelectErr ==
    /\ variant = "ezapp040" /\ opc = "select"
    /\ Len(errChan) > 0
    /\ errChan' = Tail(errChan)
    /\ reasonKind' = "error"
    /\ reasonErr' = Head(errChan)
    /\ observed' = Observe("errChan", Head(errChan))
    /\ exitCode' = 1
    /\ opc' = "drain"
    /\ UNCHANGED <<variant, kinds, handles, stopRes, initErr, sigOption, critChan, timeoutEnv,
                   goIdx, doneSends, doneRecvs,
                   spc, runCalls, cleanupLog,
                   appHandler, hasCleanup, rpc, wpc,
                   ctxCancelled, stopCtxCancelled, errChanClosed, doneClosed,
                   doneChan, gerr, sigChan, sigsSent, sigSubscribed, appErr,
                   outcome, cleanupCalls, cleanupFailed, panicked, firstTrigger>>

\* part_040:86-89: the select takes the done case: osExit(0) at once.
EzApp040_SelectDone ==
    /\ variant = "ezapp040" /\ opc = "select"
    /\ doneClosed
    /\ reasonKind' = "allDone"
    /\ exitCode' = 0
    /\ outcome' = "exit"
    /\ opc' = "exited"
    /\ UNCHANGED <<variant, kinds, handles, stopRes, initErr, sigOption, critChan, timeoutEnv,
                   goIdx, doneSends, doneRecvs,
                   spc, runCalls, observed, cleanupLog,
                   appHandler, hasCleanup, rpc, wpc,
                   ctxCancelled, stopCtxCancelled, errChan, errChanClosed,
                   doneClosed, doneChan, gerr, sigChan, sigsSent, sigSubscribed,
                   reasonErr, appErr, cleanupCalls, cleanupFailed,
                   panicked, firstTrigger>>

\* part_040:92-99: <-done, close(errChan), osExit(exitCode).
EzApp040_Drain ==
    /\ variant = "ezapp040" /\ opc = "drain"
    /\ doneClosed
    /\ errChanClosed' = TRUE
    /\ outcome' = "exit"
    /\ opc' = "exited"
    /\ UNCHANGED <<variant, kinds, handles, stopRes, initErr, sigOption, critChan, timeoutEnv,
                   goIdx, doneSends, doneRecvs,
                   spc, runCalls, observed, cleanupLog,
                   appHandler, hasCleanup, rpc, wpc,
                   ctxCancelled, stopCtxCancelled, errChan, doneClosed,
                   doneChan, gerr, sigChan, sigsSent, sigSubscribed,
                   exitCode, reasonKind, reasonErr, appErr, cleanupCalls,
                   cleanupFailed, panicked, firstTrigger>>

(***************************************************************************)
(* Variant "ezapp": EzApp.Run, src/pkg/ezapp/ezapp.go:68-122.              *)
(***************************************************************************)

\* ezapp.go:78-117: signal.Notify, the goroutine that turns a signal into
\* cancel(), one goroutine per runnable.
EzApp_Start ==
    /\ variant = "ezapp" /\ opc = "init"
    /\ sigSubscribed' = TRUE
    /\ rpc' = [i \in Runners |-> "spawned"]
    /\ wpc' = "sigwait"
    /\ opc' = "wait"
    /\ UNCHANGED <<variant, kinds, handles, stopRes, initErr, sigOption, critChan, timeoutEnv,
                   goIdx, doneSends, doneRecvs,
                   spc, runCalls, observed, cleanupLog,
                   appHandler, hasCleanup,
                   ctxCancelled, stopCtxCancelled, errChan, errChanClosed,
                   doneClosed, doneChan, gerr, sigChan, sigsSent, exitCode,
                   reasonKind, reasonErr, appErr, outcome, cleanupCalls,
                   cleanupFailed, panicked, firstTrigger>>

\* ezapp.go:85-88: <-sigChan; cancel().
EzApp_SignalCancel ==
    /\ variant = "ezapp" /\ Alive
    /\ wpc = "sigwait"
    /\ sigChan > 0
    /\ sigChan' = sigChan - 1
    /\ ctxCancelled' = Cancel(ctxCancelled)
    /\ wpc' = "done"
    /\ UNCHANGED <<variant, kinds, handles, stopRes, initErr, sigOption, critChan, timeoutEnv,
                   goIdx, doneSends, doneRecvs,
                   spc, runCalls, observed, cleanupLog,
                   appHandler, hasCleanup, opc, rpc,
                   stopCtxCancelled, errChan, errChanClosed, doneClosed,
                   doneChan, gerr, sigsSent, sigSubscribed, exitCode,
                   reasonKind, reasonErr, appErr, outcome, cleanupCalls,
                   cleanupFailed, panicked, firstTrigger>>

\* The app-level handler applied to an error (ezapp.go:108).
AppErrHandler(err) == IF appHandler = "resolve" THEN NoErr ELSE err

\* ezapp.go:100-114: the value of err when the goroutine of runnable i
\* reaches `if err != nil { cancel() }`, and whether that line is reached.
EzAppCancels(i) ==
    /\ RetVal(i) # NoErr /\ RetVal(i) # Canceled
    /\ HandleError(i, RetVal(i)) # NoErr
    /\ appHandler # "none"
    /\ AppErrHandler(HandleError(i, RetVal(i))) # NoErr

\* ezapp.go:101-108: the handlers the goroutine of runnable i passes its
\* error to.
EzAppHandlers(i) ==
    IF RetVal(i) = NoErr \/ RetVal(i) = Canceled THEN {}
    ELSE {<<"HandleError", RetVal(i)>>} \cup
         (IF HandleError(i, RetVal(i)) # NoErr /\ appHandler # "none"
          THEN {<<"ErrHandler", HandleError(i, RetVal(i))>>} ELSE {})

\* ezapp.go:97-115 without the cancel: Run returned, the handlers ran, wg.Done.
ezrunnable_Finish(i) ==
    /\ variant = "ezapp" /\ Alive
    /\ rpc[i] = "running"
    /\ CanReturn(i)
    /\ ~EzAppCancels(i)
    /\ observed' = observed \cup EzAppHandlers(i)
    /\ rpc' = [rpc EXCEPT ![i] = "done"]
    /\ UNCHANGED <<variant, kinds, handles, stopRes, initErr, sigOption, critChan, timeoutEnv,
                   goIdx, doneSends, doneRecvs,
                   spc, runCalls, cleanupLog,
                   appHandler, hasCleanup, opc, wpc,
                   ctxCancelled, stopCtxCancelled, errChan, errChanClosed,
                   doneClosed, doneChan, gerr, sigChan, sigsSent, sigSubscribed,
                   exitCode, reasonKind, reasonErr, appErr, outcome,
                   cleanupCalls, cleanupFailed, panicked,
                   firstTrigger>>

\* ezapp.go:100-112: the error is still unresolved after both handlers: cancel().
ezrunnable_Cancel(i) ==
    /\ variant = "ezapp" /\ Alive
    /\ rpc[i] = "running"
    /\ CanReturn(i)
    /\ EzAppCancels(i)
    /\ observed' = observed \cup EzAppHandlers(i)
    /\ ctxCancelled' = Cancel(ctxCancelled)
    /\ rpc' = [rpc EXCEPT ![i] = "cancelled"]
    /\ firstTrigger' = NoteTrigger("error")
    /\ UNCHANGED <<variant, kinds, handles, stopRes, initErr, sigOption, critChan, timeoutEnv,
                   goIdx, doneSends, doneRecvs,
                   spc, runCalls, cleanupLog,
                   appHandler, hasCleanup, opc, wpc,
                   stopCtxCancelled, errChan, errChanClosed, doneClosed,
                   doneChan, gerr, sigChan, sigsSent, sigSubscribed,
                   exitCode, reasonKind, reasonErr, appErr, outcome,
                   cleanupCalls, cleanupFailed, panicked>>

\* ezapp.go:97: the deferred wg.Done after cancel().
ezrunnable_Done(i) ==
    /\ variant = "ezapp" /\ Alive
    /\ rpc[i] = "cancelled"
    /\ rpc' = [rpc EXCEPT ![i] = "done"]
    /\ UNCHANGED <<variant, kinds, handles, stopRes, initErr, sigOption, critChan, timeoutEnv,
                   goIdx, doneSends, doneRecvs,
                   spc, runCalls, observed, cleanupLog,
                   appHandler, hasCleanup, opc, wpc,
                   ctxCancelled, stopCtxCancelled, errChan, errChanClosed,
                   doneClosed, doneChan, gerr, sigChan, sigsSent, sigSubscribed,
                   exitCode, reasonKind, reasonErr, appErr, outcome,
                   cleanupCalls, cleanupFailed, panicked, firstTrigger>>

\* ezapp.go:120 and the deferred calls (80, 71-76): wg.Wait() returns, cancel(),
\* then e.cleanupFunc() is called; a nil cleanupFunc or a cleanup error panics.
EzApp_WaitAndCleanup ==
    /\ variant = "ezapp" /\ opc = "wait"
    /\ AllGoroutinesDone
    /\ ctxCancelled' = Cancel(ctxCancelled)
    /\ \/ /\ hasCleanup
          /\ \E failed \in BOOLEAN :
                /\ cleanupFailed' = failed
                /\ panicked' = failed
          /\ cleanupCalls' = cleanupCalls + 1
          /\ cleanupLog' = Append(cleanupLog, CleanupBegin(TRUE, FALSE, FALSE))
       \/ /\ ~hasCleanup
          /\ panicked' = TRUE
          /\ UNCHANGED <<cleanupCalls, cleanupFailed, cleanupLog>>
    /\ outcome' = IF panicked' THEN "panic" ELSE "returned"
    /\ exitCode' = IF panicked' THEN 2 ELSE 0
    /\ reasonKind' = "allDone"
    /\ opc' = "exited"
    /\ UNCHANGED <<variant, kinds, handles, stopRes, initErr, sigOption, critChan, timeoutEnv,
                   goIdx, doneSends, doneRecvs,
                   spc, runCalls, observed,
                   appHandler, hasCleanup, rpc, wpc,
                   stopCtxCancelled, errChan, errChanClosed, doneClosed,
                   doneChan, gerr, sigChan, sigsSent, sigSubscribed,
                   reasonErr, appErr, firstTrigger>>

(***************************************************************************)
(* Variant "stop": the Stop-based App.Run, src/internal/app/app.go:48-99.  *)
(* shutdownSig is the channel the caller configured (sigSubscribed: it is  *)
(* a channel that something sends on; the default of wire.App is nil).     *)
(***************************************************************************)

\* app.go:50-74: errChan with one slot per runnable, the goroutine that
\* ranges over critErrChan, one goroutine per runnable.
AppStop_Start ==
    /\ variant = "stop" /\ opc = "init"
    /\ rpc' = [i \in Runners |-> "spawned"]
    /\ wpc' = "critloop"
    /\ opc' = "select"
    /\ UNCHANGED <<variant, kinds, handles, stopRes, initErr, sigOption, critChan, timeoutEnv,
                   goIdx, doneSends, doneRecvs,
                   spc, runCalls, observed, cleanupLog,
                   appHandler, hasCleanup, errChan, sigChan, exitCode, reasonKind, reasonErr, outcome,
                   ctxCancelled, stopCtxCancelled, errChanClosed, doneClosed,
                   doneChan, gerr, sigsSent, sigSubscribed, appErr,
                   cleanupCalls, cleanupFailed, panicked, firstTrigger>>

\* app.go:68 with a nil result: the goroutine ends.
stoprunnable_ReturnNil(i) ==
    /\ variant = "stop" /\ Alive
    /\ rpc[i] = "running"
    /\ CanReturn(i)
    /\ RetVal(i) = NoErr
    /\ rpc' = [rpc EXCEPT ![i] = "done"]
    /\ UNCHANGED <<variant, kinds, handles, stopRes, initErr, sigOption, critChan, timeoutEnv,
                   goIdx, doneSends, doneRecvs,
                   spc, runCalls, observed, cleanupLog,
                   appHandler, hasCleanup, opc, wpc, errChan, sigChan, exitCode, reasonKind, reasonErr, outcome,
                   ctxCancelled, stopCtxCancelled, errChanClosed, doneClosed,
                   doneChan, gerr, sigsSent, sigSubscribed, appErr,
                   cleanupCalls, cleanupFailed, panicked, firstTrigger>>

\* app.go:68-69 with a non-nil result: errChan <- err (one slot per runnable,
\* so the send never waits).
stoprunnable_SendErr(i) ==
    /\ variant = "stop" /\ Alive
    /\ rpc[i] = "running"
    /\ CanReturn(i)
    /\ RetVal(i) # NoErr
    /\ errChan' = SendErr(errChan, RetVal(i))
    /\ firstTrigger' = NoteTrigger("error")
    /\ rpc' = [rpc EXCEPT ![i] = "reported"]
    /\ UNCHANGED <<variant, kinds, handles, stopRes, initErr, sigOption, critChan, timeoutEnv,
                   goIdx, doneSends, doneRecvs,
                   spc, runCalls, observed, cleanupLog,
                   appHandler, hasCleanup, opc, wpc, sigChan, exitCode, reasonKind, reasonErr, outcome,
                   ctxCancelled, stopCtxCancelled, errChanClosed, doneClosed,
                   doneChan, gerr, sigsSent, sigSubscribed, appErr,
                   cleanupCalls, cleanupFailed, panicked>>

\* app.go:71 and part_034:49-51: r.NotifyCriticalError(err) is the plain send
\* r.critErrChan <- err: it completes when the goroutine of app.go:56-63
\* receives the error, and never on a nil channel (an App or a runnable whose
\* critErrChan was not set).
stoprunnable_Notify(i) ==
    /\ variant = "stop" /\ Alive
    /\ rpc[i] = "reported"
    /\ wpc = "critloop"
    /\ critChan = "served"
    /\ observed' = Observe("critErrChan", RetVal(i))
    /\ rpc' = [rpc EXCEPT ![i] = "done"]
    /\ UNCHANGED <<variant, kinds, handles, stopRes, initErr, sigOption, critChan, timeoutEnv,
                   goIdx, doneSends, doneRecvs,
                   spc, runCalls, cleanupLog,
                   appHandler, hasCleanup, opc, wpc, errChan, sigChan, exitCode, reasonKind, reasonErr, outcome,
                   ctxCancelled, stopCtxCancelled, errChanClosed, doneClosed,
                   doneChan, gerr, sigsSent, sigSubscribed, appErr,
                   cleanupCalls, cleanupFailed, panicked, firstTrigger>>

\* app.go:79-80: the select takes the errChan case.
AppStop_SelectErr ==
    /\ variant = "stop" /\ opc = "select"
    /\ Len(errChan) > 0
    /\ errChan' = Tail(errChan)
    /\ reasonKind' = "error"
    /\ reasonErr' = Head(errChan)
    /\ observed' = Observe("errChan", Head(errChan))
    /\ opc' = "stopping"
    /\ UNCHANGED <<variant, kinds, handles, stopRes, initErr, sigOption, critChan, timeoutEnv,
                   goIdx, doneSends, doneRecvs,
                   spc, runCalls, cleanupLog,
                   appHandler, hasCleanup, rpc, wpc, sigChan, exitCode, outcome,
                   ctxCancelled, stopCtxCancelled, errChanClosed, doneClosed,
                   doneChan, gerr, sigsSent, sigSubscribed, appErr,
                   cleanupCalls, cleanupFailed, panicked, firstTrigger>>

\* app.go:81-82: the select takes the shutdownSig case.
AppStop_SelectSig ==
    /\ variant = "stop" /\ opc = "select"
    /\ sigChan > 0
    /\ sigChan' = sigChan - 1
    /\ reasonKind' = "signal"
    /\ opc' = "stopping"
    /\ UNCHANGED <<variant, kinds, handles, stopRes, initErr, sigOption, critChan, timeoutEnv,
                   goIdx, doneSends, doneRecvs,
                   spc, runCalls, observed, cleanupLog,
                   appHandler, hasCleanup, rpc, wpc, errChan, exitCode, reasonErr, outcome,
                   ctxCancelled, stopCtxCancelled, errChanClosed, doneClosed,
                   doneChan, gerr, sigsSent, sigSubscribed, appErr,
                   cleanupCalls, cleanupFailed, panicked, firstTrigger>>

\* Mutant of NextToStop: the loop walks the list from its end.
NextToStop_Reversed ==
    IF \E i \in Runners : spc[i] = "idle"
    THEN CHOOSE i \in Runners :
            spc[i] = "idle" /\ \A j \in Runners : spc[j] = "idle" => i >= j
    ELSE 0

\* The runnable the loop of app.go:90 is at: the first one in list order whose
\* Stop has not been called (0 when the loop is over).
NextToStop ==
    IF \E i \in Runners : spc[i] = "idle"
    THEN CHOOSE i \in Runners :
            spc[i] = "idle" /\ \A j \in Runners : spc[j] = "idle" => i <= j
    ELSE 0

\* app.go:90-91: the loop calls runnable.Stop(ctx) on the next runnable.
AppStop_CallStop ==
    /\ variant = "stop" /\ opc = "stopping"
    /\ \A j \in Runners : spc[j] # "called"
    /\ NextToStop # 0
    /\ spc' = [spc EXCEPT ![NextToStop] = "called"]
    /\ UNCHANGED <<variant, kinds, handles, stopRes, initErr, sigOption, critChan, timeoutEnv,
                   goIdx, doneSends, doneRecvs,
                   runCalls, observed, cleanupLog,
                   appHandler, hasCleanup, opc, rpc, wpc, errChan, sigChan, exitCode, reasonKind, reasonErr, outcome,
                   ctxCancelled, stopCtxCancelled, errChanClosed, doneClosed,
                   doneChan, gerr, sigsSent, sigSubscribed, appErr,
                   cleanupCalls, cleanupFailed, panicked, firstTrigger>>

\* Whether the loop goes on after a Stop returned (app.go:91): only when the
\* result is nil.
\* Mutant of StopContinues: a Stop error does not end the process.
StopContinues_Always(res) == TRUE

StopContinues(res) == res = "ok"

\* app.go:91-97: Stop returned: nil lets the loop go on, an error (the
\* deadline included) is logged and ends the process with os.Exit(1).
AppStop_StopReturns ==
    /\ variant = "stop" /\ opc = "stopping"
    /\ \E i \in Runners :
          /\ spc[i] = "called"
          /\ IF StopContinues(stopRes[i])
             THEN /\ spc' = [spc EXCEPT ![i] = "returned"]
                  /\ UNCHANGED <<opc, outcome, exitCode>>
             ELSE /\ spc' = [spc EXCEPT ![i] = "failed"]
                  /\ opc' = "exited"
                  /\ outcome' = "exit"
                  /\ exitCode' = 1
    /\ UNCHANGED <<variant, kinds, handles, stopRes, initErr, sigOption, critChan, timeoutEnv,
                   goIdx, doneSends, doneRecvs,
                   runCalls, observed, cleanupLog,
                   appHandler, hasCleanup, rpc, wpc, errChan, sigChan, reasonKind, reasonErr,
                   ctxCancelled, stopCtxCancelled, errChanClosed, doneClosed,
                   doneChan, gerr, sigsSent, sigSubscribed, appErr,
                   cleanupCalls, cleanupFailed, panicked, firstTrigger>>

\* app.go:98-99: the loop is over and Run returns.
AppStop_Return ==
    /\ variant = "stop" /\ opc = "stopping"
    /\ \A j \in Runners : spc[j] # "called"
    /\ NextToStop = 0
    /\ opc' = "exited"
    /\ outcome' = "returned"
    /\ UNCHANGED <<variant, kinds, handles, stopRes, initErr, sigOption, critChan, timeoutEnv,
                   goIdx, doneSends, doneRecvs,
                   spc, runCalls, observed, cleanupLog,
                   appHandler, hasCleanup, rpc, wpc, errChan, sigChan, exitCode, reasonKind, reasonErr,
                   ctxCancelled, stopCtxCancelled, errChanClosed, doneClosed,
                   doneChan, gerr, sigsSent, sigSubscribed, appErr,
                   cleanupCalls, cleanupFailed, panicked, firstTrigger>>

(***************************************************************************)
(* Specification                                                           *)
(***************************************************************************)
\* Every step of the program (all goroutines), without the environment.
ProgNext ==
    \/ Run_NoRunnables
    \/ Run_startRunnables
    \/ \E i \in Runners : runnable_ReturnNil(i)
    \/ \E i \in Runners : runnable_Report(i)
    \/ \E i \in Runners : runnable_Cancel(i)
    \/ \E i \in Runners : runnable_Done(i)
    \/ waiter_CloseDone
    \/ waitForShutdown_Signal
    \/ waitForShutdown_Err
    \/ waitForShutdown_Done
    \/ Run_Drain
    \/ Run_CloseErrChan
    \/ Run_Cleanup
    \/ Run_Finish
    \/ App_New
    \/ App_Go
    \/ App_GoWait
    \/ \E i \in Runners : goroutine_ReturnNil(i)
    \/ \E i \in Runners : goroutine_StopCtxCancel(i)
    \/ \E i \in Runners : goroutine_ReturnErr(i)
    \/ group_Wait
    \/ group_SendDone
    \/ AppRun_SelectSignal
    \/ AppRun_SelectCtxDone
    \/ AppRun_SelectDone
    \/ AppRun_RecvDone
    \/ Root_InitError
    \/ RootApp_Start
    \/ \E i \in Runners : rootrunner_ReturnNil(i)
    \/ \E i \in Runners : rootrunner_ReturnErr(i)
    \/ RootApp_Signal
    \/ RootApp_Return
    \/ RootApp_Forced
    \/ Root_Finish
    \/ EzApp040_NoRunnables
    \/ EzApp040_Start
    \/ EzApp040_SelectSignal
    \/ EzApp040_SelectErr
    \/ EzApp040_SelectDone
    \/ EzApp040_Drain
    \/ EzApp_Start
    \/ EzApp_SignalCancel
    \/ \E i \in Runners : ezrunnable_Finish(i)
    \/ \E i \in Runners : ezrunnable_Cancel(i)
    \/ \E i \in Runners : ezrunnable_Done(i)
    \/ EzApp_WaitAndCleanup
    \/ \E i \in Runners : runnable_Invoke(i)
    \/ AppStop_Start
    \/ \E i \in Runners : stoprunnable_ReturnNil(i)
    \/ \E i \in Runners : stoprunnable_SendErr(i)
    \/ \E i \in Runners : stoprunnable_Notify(i)
    \/ AppStop_SelectErr
    \/ AppStop_SelectSig
    \/ AppStop_CallStop
    \/ AppStop_StopReturns
    \/ AppStop_Return
    \/ Run_InitError
    \/ EzApp040_InitError

Next ==
    \/ EnvSignal
    \/ ProgNext

Spec == Init /\ [][Next]_vars

\* The Go scheduler runs every goroutine that is able to take a step; the
\* arrival of a signal is up to the environment.
FairSpec == Spec /\ WF_vars(ProgNext)

(***************************************************************************)
(* Properties                                                              *)
(***************************************************************************)

\* The top-level call has ended (os.Exit, Fatal, panic or return).
Ended == opc = "exited"

\* The errgroup-based App.Run has returned (the root Run goes on with cleanup).
AppRunReturned == variant = "errgroup" /\ opc = "exited"

\* The initializer returned the list of runnables without an error, so the
\* run is given the N runnables.
Built == ~initErr

\* Every runnable returns nil without waiting.
AllOk == \A i \in Runners : kinds[i] = "ok"

\* C1 as stated: with N >= 0 runnables that all return nil and no OS signal,
\* ezapp.Run ends with exit code 0 and the errgroup-based App.Run returns nil;
\* until then the run is never stuck; with no runnables ezapp.Run exits in
\* its first step.
C1_AsStated ==
    (variant \in {"run", "errgroup"} /\ Built /\ AllOk /\ sigsSent = 0) =>
        /\ (variant = "run" /\ Ended) => exitCode = 0
        /\ AppRunReturned => appErr = NoErr
        /\ ~Ended => ENABLED ProgNext
        /\ (variant = "run" /\ N = 0 /\ opc # "init") => Ended

\* C1 (amended): with N >= 0 runnables that all return nil and no OS signal,
\* ezapp.Run ends with exit code 0 unless the cleanup function returned an
\* error, and the errgroup-based App.Run returns nil; until then the run is
\* never stuck; with no runnables ezapp.Run exits in its first step.
C1_AllSucceed ==
    (variant \in {"run", "errgroup"} /\ Built /\ AllOk /\ sigsSent = 0) =>
        /\ (variant = "run" /\ Ended /\ ~cleanupFailed) => exitCode = 0
        /\ AppRunReturned => appErr = NoErr
        /\ ~Ended => ENABLED ProgNext
        /\ (variant = "run" /\ N = 0 /\ opc # "init") => Ended

C1_Witness ==
    /\ variant = "run" /\ N >= 2 /\ AllOk /\ sigsSent = 0
    /\ Ended /\ reasonKind = "allDone" /\ exitCode = 0

\* C2: in the errgroup-based App.Run, when exactly one runnable returns a
\* non-cancellation error that HandleError leaves unresolved and every other
\* runnable blocks on the context and returns its cancellation error, Run
\* returns that error.
C2_FailureReported ==
    \A i \in Runners :
        ( /\ AppRunReturned
          /\ kinds[i] = "fail" /\ ~handles[i]
          /\ \A j \in Runners \ {i} : kinds[j] = "block" )
        => appErr = i

\* C3: in ezapp.Run, when a runnable's Run returned
\* a non-nil error and no OS signal was delivered, the process ends with the
\* reason "Runnable error: <an error a runnable returned>" and exit code 1.
C3_RunnableErrorReported ==
    ( /\ variant = "run" /\ Ended /\ sigsSent = 0
      /\ \E i \in Runners : Returned(i) /\ RetVal(i) # NoErr )
    => /\ reasonKind = "error"
       /\ \E i \in Runners : Returned(i) /\ reasonErr = RetVal(i) /\ reasonErr # NoErr
       /\ exitCode = 1

\* C4: when two or more runnables fail (all of them fail, no OS signal), the
\* run ends with one failure whose reason is one of their errors, nothing
\* panics and, until the run has ended, some goroutine can always take a step.
C4_OneErrorRetained ==
    ( /\ variant \in {"run", "errgroup"} /\ sigsSent = 0 /\ N >= 2
      /\ \A i \in Runners : kinds[i] = "fail" /\ ~handles[i] )
    => /\ ~panicked
       /\ ~Ended => ENABLED ProgNext
       /\ (variant = "run" /\ Ended) =>
             (reasonKind = "error" /\ reasonErr \in Runners /\ exitCode = 1)
       /\ AppRunReturned => appErr \in Runners

\* The steps with which the goroutine executing Run leaves its wait for the
\* runnables to return after cancellation.
DrainStep == Run_Drain \/ AppRun_RecvDone \/ EzApp040_Drain

\* C5: once cancellation has been issued, the wait for the runnables to return
\* is bounded: while a runnable never returns, the goroutine executing Run is
\* not blocked in that wait with no step (in particular no timeout) to leave it.
C5_DrainBounded ==
    ( /\ variant \in {"run", "errgroup", "ezapp040"}
      /\ ctxCancelled
      /\ opc \in {"drain", "recvDone"}
      /\ \E i \in Runners : kinds[i] = "hang" )
    => ENABLED DrainStep

\* C6: a configured cleanup function is invoked exactly once per run: never
\* twice, and once the run has ended it has been invoked.
C6_CleanupExactlyOnce ==
    hasCleanup => /\ cleanupCalls <= 1
                  /\ Ended => cleanupCalls = 1

\* C7: when every runnable returned nil and the cleanup function returned an
\* error, ezapp.Run exits with code 1 and the root Run ends in the Fatal
\* "application cleanup failed".
C7_CleanupFailureSurfaced ==
    ( /\ variant \in {"run", "root"} /\ Ended /\ cleanupFailed
      /\ \A i \in Runners : Returned(i) /\ RetVal(i) = NoErr )
    => /\ variant = "run" => exitCode = 1
       /\ variant = "root" => (outcome = "fatal_cleanup" /\ exitCode = 1)

C7_Witness ==
    /\ variant = "run" /\ N >= 1 /\ Ended /\ cleanupFailed
    /\ \A i \in Runners : Returned(i) /\ RetVal(i) = NoErr
    /\ reasonKind = "allDone" /\ exitCode = 1

\* The steps of the goroutine of runnable i.
RunnableStep(i) ==
    \/ runnable_ReturnNil(i) \/ runnable_Report(i)
    \/ goroutine_ReturnNil(i) \/ goroutine_StopCtxCancel(i)

\* An OS signal arrived while the run was under way, before any other
\* shutdown trigger.
SignalArrivedFirst ==
    /\ variant \in {"run", "errgroup"} /\ Built
    /\ firstTrigger = "signal"

\* Nothing else failed: the cleanup function did not fail and every runnable
\* that returned gave nil or the cancellation error.
NothingElseFailed ==
    /\ ~cleanupFailed
    /\ \A i \in Runners : Returned(i) => RetVal(i) \in {NoErr, Canceled}

\* No runnable ignores the cancellation for ever.
NoneHangs == \A i \in Runners : kinds[i] # "hang"

\* C8: when an OS signal arrived during the run before any other trigger, the
\* shared context is cancelled once the orchestrator has taken the signal
\* case of its select and in any case when the run has ended, every runnable blocked on the cancelled context can return, the
\* run is never stuck before it has ended (no runnable ignoring the
\* cancellation), and it ends successfully (exit code 0 / nil error) unless
\* a runnable returned a non-cancellation error or the cleanup function
\* failed.
C8_SignalShutdown ==
    SignalArrivedFirst =>
        /\ (reasonKind = "signal" \/ Ended) => ctxCancelled
        /\ \A i \in Runners :
              (Alive /\ ctxCancelled /\ rpc[i] = "running" /\ Blocks(kinds[i]))
                  => ENABLED RunnableStep(i)
        /\ (NoneHangs /\ ~Ended) => ENABLED ProgNext
        /\ NothingElseFailed =>
              /\ (variant = "run" /\ Ended) => exitCode = 0
              /\ AppRunReturned => appErr = NoErr

\* C8 for the runs in which no runnable returns context.Canceled of its own
\* accord (before any cancellation), the case of C9: the statement of C8
\* holds for them.
C8_WithoutSpontaneousCancel ==
    (\A i \in Runners : kinds[i] # "canceled") => C8_SignalShutdown

\* The errgroup-based App.Run returned nil after the signal case cancelled a
\* runnable blocked on the context.
C8_Witness ==
    /\ variant = "errgroup" /\ firstTrigger = "signal" /\ AppRunReturned
    /\ reasonKind = "signal"
    /\ \E i \in Runners : kinds[i] = "block" /\ Returned(i)
    /\ gerr = Canceled /\ appErr = NoErr

\* C9: when context.Canceled is the only non-nil outcome of the runnables
\* (and the cleanup function does not fail), the run ends successfully and
\* context.Canceled is not the reported shutdown reason.
C9_CanceledNonFatal ==
    ( /\ variant \in {"run", "errgroup"}
      /\ \A i \in Runners : RetVal(i) \in {NoErr, Canceled}
      /\ ~cleanupFailed )
    => /\ (variant = "run" /\ Ended) => exitCode = 0
       /\ AppRunReturned => appErr = NoErr
       /\ ~(reasonKind = "error" /\ reasonErr = Canceled)

\* C10: the reported shutdown reason is the trigger that occurred first among
\* OS signal, first runner failure and all runners returned.
C10_FirstTriggerWins ==
    ( /\ variant = "run"
      /\ reasonKind \in {"signal", "error", "allDone"} )
    => reasonKind = firstTrigger

\* The shutdown was forced by the shutdown timeout.
Forced == variant = "root" /\ appErr = DeadlineExceeded

\* C11: on every path the cleanup function never begins before the context
\* handed to the runnables has been cancelled, and, unless the shutdown was
\* forced by the timeout, it begins only after every runnable's Run has
\* returned.
C11_CleanupAfterCancelAndReturn ==
    \A k \in 1..Len(cleanupLog) :
        /\ cleanupLog[k].cancelled
        /\ ~Forced => cleanupLog[k].allReturned

\* C12: when a runner failure is the result of the run and the cleanup
\* function fails too, the failure that is surfaced is the runner failure
\* (root Run: Fatal "application failed"; ezapp.Run: the reason stays the
\* runnable error, exit code 1); a cleanup error is the surfaced failure only
\* when the run was successful otherwise.
C12_RunnerFailureOutranksCleanup ==
    /\ (variant = "root" /\ Ended /\ cleanupFailed /\ appErr # NoErr) =>
           outcome = "fatal_app"
    /\ (variant = "root" /\ Ended /\ outcome = "fatal_cleanup") =>
           cleanupFailed /\ appErr = NoErr
    /\ (variant = "root" /\ Ended /\ cleanupFailed /\ appErr = NoErr) =>
           outcome = "fatal_cleanup"
    /\ (variant = "run" /\ Ended /\ cleanupFailed /\ reasonKind = "error") =>
           reasonErr # NoErr /\ exitCode = 1
    /\ (variant = "run" /\ Ended /\ cleanupFailed /\ reasonKind # "error") =>
           exitCode = 1

C12_Witness ==
    /\ variant = "root" /\ Ended
    /\ cleanupCalls = 1 /\ cleanupFailed
    /\ appErr \in Runners
    /\ outcome = "fatal_app"

\* The orchestrator saw error err at least once.
Observed(err) == \E p \in observed : p[2] = err

\* C13: every non-cancellation error returned by a runnable's Run is observed
\* by the orchestrator at least once (received from the error channel or
\* passed to a handler) by the time the run has ended.
C13_EveryErrorObserved ==
    (variant \in {"run", "ezapp", "errgroup"} /\ Ended) =>
        \A i \in Runners :
            (Returned(i) /\ RetVal(i) # NoErr /\ RetVal(i) # Canceled) =>
                Observed(RetVal(i))

\* The error of runnable i is still unresolved after the handlers EzApp.Run
\* is configured with: HandleError returned an error and the app-level
\* handler, when there is one, returned an error too.
Unresolved(i) ==
    /\ RetVal(i) # NoErr /\ RetVal(i) # Canceled
    /\ HandleError(i, RetVal(i)) # NoErr
    /\ appHandler # "none" => AppErrHandler(HandleError(i, RetVal(i))) # NoErr

\* C14: in EzApp.Run, once the goroutine of a runnable whose Run returned a
\* non-cancellation error has finished, HandleError was called with the error,
\* the app-level handler (when set) was called with what HandleError
\* returned, and the context is cancelled when the error is still unresolved
\* after the configured handlers, whatever the app-level handler is (none
\* included).
C14_HandlerChain ==
    variant = "ezapp" =>
        \A i \in Runners :
            (rpc[i] = "done" /\ RetVal(i) # NoErr /\ RetVal(i) # Canceled) =>
                /\ <<"HandleError", RetVal(i)>> \in observed
                /\ (HandleError(i, RetVal(i)) # NoErr /\ appHandler # "none") =>
                       <<"ErrHandler", HandleError(i, RetVal(i))>> \in observed
                /\ Unresolved(i) => ctxCancelled

\* Exactly one runnable fails with an error its HandleError does not resolve
\* and every other runnable is cooperative: it returns at once or as soon as
\* the context is cancelled.
OneFailsOthersCooperate ==
    /\ variant \in {"run", "errgroup"} /\ Built
    /\ \E i \in Runners :
          /\ kinds[i] = "fail" /\ ~handles[i]
          /\ \A j \in Runners \ {i} : kinds[j] \in {"ok", "block", "blockok"}

\* C15: when one runnable fails with an unresolved error and the others are
\* cooperative, then under fair scheduling the context is eventually
\* cancelled, every runnable's Run returns and the run terminates.
C15_FailureTerminatesRun ==
    OneFailsOthersCooperate =>
        <>(ctxCancelled /\ Ended /\ \A i \in Runners : Returned(i))

C15_Witness ==
    /\ variant = "errgroup"
    /\ N >= 2 /\ kinds[1] = "block" /\ kinds[2] = "fail" /\ ~handles[2]
    /\ sigsSent = 0
    /\ ctxCancelled /\ Ended /\ \A i \in Runners : Returned(i)

\* C16: in ezapp.Run and the errgroup-based App.Run every runnable of the list
\* gets a goroutine of its own: ezapp.Run has started them all once it is past
\* its start, the k-th iteration of the loop of App.Run starts the k-th
\* runnable and the next iteration can always be taken whatever the runnables
\* started before are doing (a runnable that never returns does not hold it
\* back), so that App.Run reaches its select with all of them started; Run of
\* a runnable is invoked at most once, a runnable that has a goroutine and
\* was not invoked yet can be invoked whatever the others are doing, and when
\* the run has ended every runnable was invoked exactly once.
C16_EachRunnerInvokedOnce ==
    (variant \in {"run", "errgroup"} /\ Built) =>
        /\ \A i \in Runners : runCalls[i] <= 1
        /\ (variant = "run" /\ opc # "init") =>
               \A i \in Runners : rpc[i] # "idle"
        /\ variant = "errgroup" =>
               /\ \A i \in Runners : rpc[i] = "idle" <=> i > goIdx
               /\ (opc = "new" /\ goIdx < N) => ENABLED App_Go
               /\ opc \notin {"init", "new"} => goIdx = N
        /\ \A i \in Runners :
              (Alive /\ rpc[i] = "spawned") => ENABLED runnable_Invoke(i)
        /\ \A i \in Runners : rpc[i] \in {"idle", "spawned"} <=> runCalls[i] = 0
        /\ Ended => \A i \in Runners : runCalls[i] = 1

C16_Witness ==
    /\ variant = "errgroup" /\ N = 2
    /\ kinds[1] = "hang" /\ rpc[1] = "running"
    /\ rpc[2] = "done"
    /\ goIdx = 2 /\ opc = "select"
    /\ runCalls = <<1, 1>>

\* C17: in the Stop-based App.Run, once the shutdown was triggered (a runnable's
\* error or a value on shutdownSig) and Run has ended, Stop was called on every
\* runnable of the list, whatever the Stop of another runnable returned.
C17_StopCalledOnAll ==
    (variant = "stop" /\ Ended /\ reasonKind \in {"error", "signal"}) =>
        \A i \in Runners : spc[i] # "idle"

\* C18: after the shutdown was triggered, the run does not return or exit
\* normally before every runnable's Run has returned (Stop-based App.Run: Run
\* returns; ezapp.Run: osExit after the shutdown sequence).
C18_WaitsForRunners ==
    /\ (variant = "stop" /\ Ended /\ outcome = "returned") =>
           \A i \in Runners : Returned(i)
    /\ (variant = "run" /\ Ended /\ reasonKind \in {"signal", "error", "allDone"}) =>
           \A i \in Runners : Returned(i)

\* C19: when the top-level call of the run has ended, the signal subscription
\* made for the run has been released (signal.Stop) and no goroutine of the
\* run is left waiting for a signal.
C19_SignalSubscriptionReleased ==
    (variant \in {"run", "ezapp", "errgroup"} /\ Ended) =>
        ~sigSubscribed /\ wpc # "sigwait"

\* C20: with no cleanup function configured the run ends with the result the
\* runnables determine, no call is made through the absent function and
\* nothing panics.
C20_CleanupOptional ==
    (~hasCleanup /\ variant \in {"run", "ezapp", "root"} /\ Ended) =>
        /\ ~panicked
        /\ cleanupCalls = 0
        /\ (variant = "run" /\ reasonKind # "noRunnables") =>
               exitCode = ShutdownExit(reasonKind)
        /\ (variant = "root" /\ reasonKind # "initError") =>
               outcome = RootOutcome(appErr, FALSE)
        /\ variant = "ezapp" => outcome = "returned"

\* Every runnable whose Run returns an error resolves it: its HandleError
\* returns nil.
AllErrorsHandled == \A i \in Runners : RetVal(i) # NoErr => handles[i]

\* C21: when every error a runnable's Run returns is resolved by its
\* HandleError, no runnable goroutine cancels the context (it is cancelled
\* only by a signal, or once every runnable has finished), no error is kept
\* and the run does not fail: the errgroup-based App.Run returns nil and
\* EzApp.Run returns normally.
C21_HandledErrorIsNotFatal ==
    (variant \in {"errgroup", "ezapp"} /\ AllErrorsHandled) =>
        /\ firstTrigger # "error"
        /\ (variant = "errgroup" /\ ctxCancelled) =>
               reasonKind = "signal" \/ wpc # "waiting"
        /\ (variant = "errgroup" /\ stopCtxCancelled) => reasonKind = "signal"
        /\ variant = "errgroup" => gerr = NoErr
        /\ AppRunReturned => appErr = NoErr
        /\ (variant = "ezapp" /\ ctxCancelled) => wpc = "done" \/ Ended
        /\ (variant = "ezapp" /\ Ended /\ hasCleanup /\ ~cleanupFailed) =>
               outcome = "returned"

C21_Witness ==
    /\ variant = "errgroup" /\ N = 2
    /\ kinds[1] = "fail" /\ handles[1] /\ rpc[1] = "done"
    /\ <<"HandleError", 1>> \in observed
    /\ kinds[2] = "blockok" /\ rpc[2] = "running"
    /\ ~ctxCancelled

\* C22: when the builder returned an error (or the app carries an
\* initialization error), Run ends with exit code 1 as its first step: no
\* runnable goroutine is started, no Run is invoked, no signal subscription
\* is made and the cleanup function is not called.
C22_InitErrorStartsNothing ==
    (initErr /\ opc # "init") =>
        /\ Ended
        /\ outcome = IF variant = "root" THEN "fatal_init" ELSE "exit"
        /\ reasonKind = "initError" /\ exitCode = 1
        /\ \A i \in Runners : rpc[i] = "idle" /\ runCalls[i] = 0
        /\ ~sigSubscribed /\ sigsSent = 0
        /\ cleanupCalls = 0

C22_Witness ==
    /\ variant = "run" /\ initErr
    /\ N >= 1 /\ hasCleanup
    /\ Ended /\ exitCode = 1 /\ reasonKind = "initError"

\* C23: whenever ezapp.Run or the root Run calls the cleanup function, the
\* context it hands over carries a deadline and is not yet done at the
\* moment the call begins.
C23_CleanupCtxFresh ==
    variant \in {"run", "root"} =>
        \A k \in 1..Len(cleanupLog) :
            cleanupLog[k].hasDeadline /\ ~cleanupLog[k].ctxDone

\* C24: in the Stop-based App.Run, when every runnable's Run has returned nil
\* and Run has not ended, the program can take a step: the completion of
\* all runnables is a trigger that lets Run go on to the shutdown instead of
\* blocking.
C24_AllReturnedIsTrigger ==
    (/\ variant = "stop" /\ N >= 1 /\ ~Ended
     /\ \A i \in Runners : Returned(i) /\ RetVal(i) = NoErr) =>
        ENABLED ProgNext

\* C25: in the Stop-based App.Run, Run ends only out of the Stop loop: with
\* os.Exit(1) exactly when the Stop of some runnable returned an error
\* (context.DeadlineExceeded included), and with a normal return exactly when
\* the Stop of every runnable was called and returned nil.
C25_StopErrorExitsOne ==
    variant = "stop" =>
        /\ Ended => reasonKind \in {"error", "signal"}
        /\ Ended =>
              \/ /\ outcome = "exit" /\ exitCode = 1
                 /\ \E i \in Runners : spc[i] = "failed" /\ stopRes[i] # "ok"
              \/ /\ outcome = "returned" /\ exitCode = 0
                 /\ \A i \in Runners : spc[i] = "returned" /\ stopRes[i] = "ok"
        /\ \A i \in Runners :
              spc[i] = "failed" => Ended /\ outcome = "exit" /\ exitCode = 1
        /\ \A i \in Runners : spc[i] = "returned" => stopRes[i] = "ok"

C25_Witness ==
    /\ variant = "stop" /\ N = 2
    /\ stopRes = <<"ok", "deadline">>
    /\ spc = <<"returned", "failed">>
    /\ Ended /\ outcome = "exit" /\ exitCode = 1

\* The goroutine of runnable i is reporting an error: Run can return or has
\* returned a non-nil error and the goroutine has not finished.
Reporting(i) ==
    \/ rpc[i] = "running" /\ CanReturn(i) /\ RetVal(i) # NoErr
    \/ rpc[i] \in {"reported", "cancelled"}

ReportStep(i) ==
    \/ runnable_Report(i) \/ runnable_Cancel(i) \/ runnable_Done(i)
    \/ stoprunnable_SendErr(i) \/ stoprunnable_Notify(i)

\* C26: a goroutine that is reporting the error of its runnable (ezapp.Run,
\* Stop-based App.Run) can always take its next step: neither the write to
\* the error channel nor the critical-error notification waits.
C26_ReportNeverBlocks ==
    variant \in {"run", "stop"} =>
        \A i \in Runners : (Alive /\ Reporting(i)) => ENABLED ReportStep(i)

\* C27: cancellation is monotonic and cancel is idempotent: no step of any
\* goroutine (a further cancel call included) turns a cancelled context (the
\* runnables' context, App.stopCtx) back into a live one, a cancel of
\* App.stopCtx reaches the runnables' context derived from it in the same
\* step, and in every state in which the runnables' context is cancelled a
\* runnable that waits on it can return.
C27_CancelMonotonic ==
    /\ [](\A i \in Runners :
             ( /\ variant \in {"run", "errgroup"} /\ Alive
               /\ ctxCancelled /\ rpc[i] = "running" /\ Blocks(kinds[i]) )
             => ENABLED RunnableStep(i))
    /\ [][/\ ctxCancelled => ctxCancelled'
          /\ stopCtxCancelled => stopCtxCancelled'
          /\ stopCtxCancelled' => ctxCancelled']_vars

\* A run in which the signal path cancelled first and both runnables, woken
\* by it, failed and cancelled again before the group's own cancel calls.
C27_Witness ==
    /\ variant = "errgroup" /\ N = 2
    /\ kinds = <<"blockfail", "blockfail">>
    /\ \A i \in Runners : ~handles[i]
    /\ reasonKind = "signal"
    /\ rpc = <<"done", "done">>
    /\ gerr \in Runners
    /\ stopCtxCancelled /\ ctxCancelled /\ AppRunReturned

\* C28: with default options (no shutdown-signal option) the Stop-based App
\* waiting in its select can be reached by an interrupt of the process: a
\* value can arrive on its shutdownSig.
C28_DefaultSignalDelivers ==
    (variant = "stop" /\ ~sigOption /\ opc = "select" /\ sigsSent = 0) =>
        ENABLED EnvSignal

\* C29: in ezapp.Run and the earlier EzApp.Run the error channel is closed
\* only after `done` was closed, that is after every runnable goroutine has
\* finished, so no goroutine ever sends on the closed channel (no panic).
C29_ErrChanClosedAfterDone ==
    variant \in {"run", "ezapp040"} =>
        /\ errChanClosed => doneClosed /\ AllGoroutinesDone
        /\ ~panicked

C29_Witness ==
    /\ variant = "run" /\ N = 2
    /\ reasonKind = "signal"
    /\ kinds = <<"blockfail", "blockfail">>
    /\ Len(errChan) = 2
    /\ errChanClosed /\ ~panicked

\* C30: in ezapp.Run, once waitForShutdown has returned, no step changes the
\* shutdown reason, and the only step that changes the exit code is a cleanup
\* that failed, which sets it to 1; in particular a runner error that occurs
\* after a signal or all-done was selected leaves the exit code alone.
TriggerChosen ==
    variant = "run" /\ reasonKind \in {"signal", "error", "allDone"}

C30_TriggerResultFrozen ==
    [][TriggerChosen =>
          /\ reasonKind' = reasonKind
          /\ reasonErr' = reasonErr
          /\ \/ exitCode' = exitCode
             \/ /\ opc = "cleanup" /\ cleanupFailed'
                /\ exitCode' = 1]_vars

C30_Witness ==
    /\ variant = "run" /\ N = 1
    /\ kinds[1] = "blockfail"
    /\ reasonKind = "signal"
    /\ errChan = <<1>>
    /\ hasCleanup /\ cleanupCalls = 1 /\ ~cleanupFailed
    /\ opc = "exited" /\ exitCode = 0

\* C31: in the Stop-based App.Run no Stop is called before the select has
\* received a shutdown trigger (the deadline context is created once, right
\* after it), the Stop calls are issued one at a time in list order, and Stop
\* of a runnable starts only after Stop of every earlier runnable has
\* returned nil.
C31_StopSequential ==
    variant = "stop" =>
        /\ \A i \in Runners :
              spc[i] # "idle" =>
                 /\ reasonKind \in {"signal", "error"}
                 /\ opc \in {"stopping", "exited"}
        /\ \A i, j \in Runners :
              (i < j /\ spc[j] # "idle") =>
                 spc[i] = "returned" /\ stopRes[i] = "ok"
        /\ Cardinality({i \in Runners : spc[i] = "called"}) <= 1

C31_Witness ==
    /\ variant = "stop" /\ N = 2
    /\ reasonKind = "signal"
    /\ spc = <<"returned", "called">>

\* C32: in the errgroup-based App.Run at most one value is ever sent on the
\* buffered `done` channel and at most one is received from it; the values
\* sent are the value still in the buffer plus those received; the sending
\* goroutine is never blocked once the group has finished; Run waiting for
\* `done` after the signal or ctx.Done() case has not received from it yet;
\* and when Run has returned, on whichever select branch, exactly one value
\* was sent and exactly one received.
C32_DoneSentAndReceivedOnce ==
    variant = "errgroup" =>
        /\ doneSends <= 1 /\ doneRecvs <= 1
        /\ doneSends = Len(doneChan) + doneRecvs
        /\ Len(doneChan) <= DoneCap
        /\ (Alive /\ wpc = "send") => ENABLED group_SendDone
        /\ opc = "recvDone" => doneRecvs = 0
        /\ AppRunReturned =>
              /\ reasonKind \in {"signal", "ctxDone", "allDone"}
              /\ doneSends = 1 /\ doneRecvs = 1

C32_Witness ==
    /\ variant = "errgroup" /\ N = 2
    /\ reasonKind = "signal"
    /\ AppRunReturned
    /\ doneSends = 1 /\ doneRecvs = 1 /\ doneChan = <<>>

====
